---- MODULE Spec2Model ----
(***************************************************************************)
(* Model of the collaboration core of md-to-pdf: the LoroStore (CRDT       *)
(* document, presence, PeerJS session) of loro.svelte.ts and the           *)
(* reconciliation bridge of files.svelte.ts.                               *)
(*                                                                         *)
(* Library semantics assumed by the source and used here:                  *)
(*  - a LoroDoc is its op-log; import merges the operations of a payload   *)
(*    that the log does not hold yet, export({from}) returns the           *)
(*    operations not covered by `from`, a snapshot is the whole log;       *)
(*    importing bytes that do not decode throws and changes nothing;       *)
(*  - doc.subscribe listeners run inside the mutation that caused them     *)
(*    (the source tests applyingRemote inside the listener);               *)
(*  - a PeerJS data channel delivers every message once, in any order;     *)
(*  - the PeerJS broker registers an identifier for at most one live Peer; *)
(*  - opfs.writeFile awaits four file-system calls (opfs.ts lines 131-136): *)
(*    writes started by different callbacks complete in any order.         *)
(***************************************************************************)
EXTENDS Integers, Sequences, FiniteSets, Bags, TLC

\* ---------------------------------------------------------------- bounds
MaxEdits == 2
MaxFaultEdits == 1
MaxJoins == 3
MaxCorrupt == 1
MaxRelayEdits == 1
MaxUserOps == 2
\* callbacks that may be suspended when the user acts
MaxPending == 1
MaxFail == 1
\* data-channel errors reported in a behaviour
MaxErrors == 1
\* presence changes made in a behaviour
MaxPresence == 1

\* ------------------------------------------------------------- universes
\* the stores (browser tabs); Pair are the two of a two-peer session
Peers == {"A", "B", "C"}
Pair == {"A", "B"}
Rank == ("A" :> 1) @@ ("B" :> 2) @@ ("C" :> 3)
Paths == {"n", "m"}
PathOrder == <<"n", "m">>
\* the path the stores of the sessions without a file tree write to
EditPaths == {"n"}
Contents == {<<>>, <<"x">>, <<"y">>}
NoId == <<"none", 0>>
RoomIds == {<<"r", 0>>}
NoFile == "none"

\* ------------------------------------------------- CRDT document (LoroDoc)
\* An operation is one committed setFile: [id, path, del, ins]; del is the
\* set of operation ids whose text it deletes, ins the text it inserts.

IdLess(a, b) == \/ Rank[a[1]] < Rank[b[1]]
                \/ (a[1] = b[1] /\ a[2] < b[2])

OpsOf(log) == {log[i] : i \in DOMAIN log}

\* doc.oplogVersion()
oplogVersion(log) == {o.id : o \in OpsOf(log)}

LiveOps(log, path) ==
    LET P == {o \in OpsOf(log) : o.path = path}
        dels == UNION {o.del : o \in P}
    IN  {o \in P : o.id \notin dels}

RECURSIVE Concat(_)
Concat(S) ==
    IF S = {} THEN <<>>
    ELSE LET m == CHOOSE o \in S : \A q \in S : q.id = o.id \/ IdLess(o.id, q.id)
         IN  m.ins \o Concat({q \in S : q.id # m.id})

\* the null that getFile returns from its catch block
Null == <<"null">>
\* getFile(path): doc.getText(path).toString(); getText creates the text
\* container of a path the document does not hold (comment at line 127) and
\* does not throw, so the catch block is not entered
getFileLogOrder(log, path) ==
    LET live == LiveOps(log, path)
        f[i \in 0..Len(log)] ==
            IF i = 0 THEN <<>>
            ELSE f[i - 1] \o (IF log[i] \in live THEN log[i].ins ELSE <<>>)
    IN  f[Len(log)]
getFile(log, path) == Concat(LiveOps(log, path))

RECURSIVE SortOps(_)
SortOps(S) ==
    IF S = {} THEN <<>>
    ELSE LET m == CHOOSE o \in S : \A q \in S : q.id = o.id \/ IdLess(o.id, q.id)
         IN  <<m>> \o SortOps(S \ {m})

\* doc.import(bytes) of a decodable payload: operations already in the log
\* are skipped, the others are appended.
ImportDup(log, ops) == log \o SortOps(ops)
ImportReplace(log, ops) == SortOps(ops)
Import(log, ops) == log \o SortOps({o \in ops : o.id \notin oplogVersion(log)})

\* doc.export({mode: 'update', from}) and doc.export({mode: 'snapshot'})
ExportFrom(log, from) == {o \in OpsOf(log) : o.id \notin from}
ExportSnapshot(log) == OpsOf(log)

\* ------------------------------------------------------------------ state
VARIABLES
    oplog,            \* LoroStore.doc: the op-log of each store's LoroDoc
    filePaths,        \* LoroStore.filePaths
    applyingRemote,   \* LoroStore.applyingRemote
    lastFrontiers,    \* LoroStore.lastFrontiers (undefined = {})
    eph,              \* LoroStore.ephemeral: key -> [ts, file], ts = 0 absent
    awareness,        \* LoroStore.awareness
    meFile,           \* LoroStore.me.currentFileId
    isHost,           \* LoroStore.isHost
    roomId,           \* LoroStore.roomId (null = NoId)
    peer,             \* LoroStore.peer: index into peerObjs, 0 = null
    peerObjs,         \* the PeerJS Peer objects each store has created
    connections,      \* LoroStore.connections: remote id -> <<conn, side>>
    onRemoteChange,   \* LoroStore.onRemoteChange is set (setChangeCallback)
    onBecameHost,     \* LoroStore.onBecameHost is set (setHostCallback)
    conns,            \* the data connections, both endpoints
    msgs,             \* messages in flight (bag)
    opfs,             \* the local file store of each peer: path -> content
    files,            \* filesStore.files (paths of the cached tree)
    currentFile,      \* filesStore.currentFile
    lastSavedContent, \* filesStore.lastSavedContent
    autoSaveTimer,    \* filesStore.autoSaveTimer is set
    isApplyingRemote, \* filesStore.isApplyingRemote
    tasks,            \* suspended async callbacks of the bridge
    hist              \* history variables used by the properties

vars == <<oplog, filePaths, applyingRemote, lastFrontiers, eph, awareness,
          meFile, isHost, roomId, peer, peerObjs, connections, onRemoteChange,
          onBecameHost, conns, msgs, opfs, files, currentFile, lastSavedContent,
          autoSaveTimer, isApplyingRemote, tasks, hist>>

storeVars == <<oplog, filePaths, applyingRemote, lastFrontiers>>
presenceVars == <<eph, awareness, meFile>>
sessionVars == <<isHost, roomId, peer, peerObjs, connections>>
callbackVars == <<onRemoteChange, onBecameHost>>
netVars == <<conns, msgs>>
bridgeVars == <<opfs, files, currentFile, lastSavedContent, autoSaveTimer,
                isApplyingRemote, tasks>>

\* ---------------------------------------------------------------- helpers
EmptyMap == [x \in {} |-> 0]
MapSet(m, key, v) == [x \in (DOMAIN m) \cup {key} |-> IF x = key THEN v ELSE m[x]]
MapDel(m, key) == [x \in (DOMAIN m) \ {key} |-> m[x]]
RemoveAt(s, i) == [j \in 1..(Len(s) - 1) |-> IF j < i THEN s[j] ELSE s[j + 1]]
NoFileRec == [path |-> NoFile, content |-> <<>>, isDirty |-> FALSE, isNew |-> FALSE]

\* the endpoint of connection k on side "c" (the peer that called connect)
\* or "s" (the peer that received the 'connection' event)
EndStore(k, side) == IF side = "c" THEN conns[k].cl ELSE conns[k].srv
EndState(k, side) == IF side = "c" THEN conns[k].cst ELSE conns[k].sst
\* conn.peer: the identifier of the remote peer of an endpoint
EndPeer(k, side) == IF side = "c" THEN conns[k].srvId ELSE conns[k].clId
Other(side) == IF side = "c" THEN "s" ELSE "c"

DocMsg(type, ops) == [type |-> type, ok |-> TRUE, ops |-> ops, st |-> {}]
EphMsg(st) == [type |-> "ephemeral", ok |-> TRUE, ops |-> {}, st |-> st]
Flight(k, side, m) == [k |-> k, to |-> side, m |-> m]

\* broadcast(msg, excludeId) over the connection map cmap, the data
\* connections being in state cs: the messages put in flight
connOpen(cs, e) == (IF e[2] = "c" THEN cs[e[1]].cst ELSE cs[e[1]].sst) = "open"
broadcast(cmap, cs, m, excludeId) ==
    {Flight(cmap[id][1], Other(cmap[id][2]), m) :
        id \in {x \in DOMAIN cmap : x # excludeId /\ connOpen(cs, cmap[x])}}

\* ephemeral.encodeAll()
encodeAll(e) == {<<q, e[q].ts, e[q].file>> : q \in {x \in Peers : e[x].ts > 0}}
\* ephemeral.apply(bytes): last writer wins per key
ephApply(e, st) ==
    [q \in Peers |->
        LET new == {t \in st : t[1] = q /\ t[2] > e[q].ts}
        IN  IF new = {} THEN e[q]
            ELSE LET t == CHOOSE u \in new : \A v \in new : v[2] <= u[2]
                 IN  [ts |-> t[2], file |-> t[3]]]
\* updateLocalAwareness(): self first, then every other key of the store
updateLocalAwareness(p, e, mf) ==
    {<<p, IF e[p].ts > 0 THEN e[p].file ELSE mf>>}
        \cup {<<q, e[q].file>> : q \in {x \in Peers \ {p} : e[x].ts > 0}}
\* ephemeral.set(this.me.id, this.me)
ephSet(p, e, mf) == [e EXCEPT ![p] = [ts |-> e[p].ts + 1, file |-> mf]]


\* identifier the broker assigns to the i-th Peer of store p created
\* without one
RandId(p, i) == <<p, i>>
NewPeer(kind, want, target) ==
    [kind |-> kind, want |-> want, id |-> NoId, st |-> "pending", target |-> target]
Registered(id) ==
    \E q \in Peers : \E j \in DOMAIN peerObjs[q] :
        peerObjs[q][j].st = "open" /\ peerObjs[q][j].id = id
Registrant(id) ==
    CHOOSE e \in {<<q, j>> : q \in Peers, j \in 1..(2 * MaxJoins + 2)} :
        /\ e[2] \in DOMAIN peerObjs[e[1]]
        /\ peerObjs[e[1]][e[2]].st = "open"
        /\ peerObjs[e[1]][e[2]].id = id

\* peer.destroy() of the i-th Peer of store p: its connections close; the
\* local 'close' handlers run at once, the remote ones later
destroyConns(p, i) ==
    [k \in DOMAIN conns |->
        LET c == conns[k]
            mineC == c.cl = p /\ c.clObj = i
            mineS == c.srv = p /\ c.srvObj = i
            far(st) == IF st = "open" THEN "closing"
                       ELSE IF st = "new" THEN "closed" ELSE st
        IN  IF mineC \/ mineS
            THEN [c EXCEPT !.cst = IF mineC THEN "closed" ELSE far(c.cst),
                           !.sst = IF mineS THEN "closed" ELSE far(c.sst)]
            ELSE c]
dropClosed(cs, bag) ==
    LET live == {f \in BagToSet(bag) : cs[f.k].cst = "open" /\ cs[f.k].sst = "open"}
    IN  [f \in live |-> bag[f]]

\* ------------------------------------------------------ Transport Session
\* joinRoom(roomId), after the dynamic import of peerjs resolved
joinRoom(p, r) ==
    /\ hist.joins < MaxJoins
    /\ LET i == peer[p]
           cs == IF i = 0 THEN conns ELSE destroyConns(p, i)
           objs == IF i = 0 THEN peerObjs[p]
                   ELSE [peerObjs[p] EXCEPT ![i].st = "destroyed"]
           hadOpen == \E k \in DOMAIN conns :
                        \/ conns[k].cl = p /\ conns[k].clObj = i /\ conns[k].cst = "open"
                        \/ conns[k].srv = p /\ conns[k].srvObj = i /\ conns[k].sst = "open"
       IN  /\ conns' = cs
           /\ msgs' = dropClosed(cs, msgs)
           /\ connections' = [connections EXCEPT ![p] = EmptyMap]
           /\ awareness' = IF i # 0 /\ hadOpen
                           THEN [awareness EXCEPT ![p] =
                                    updateLocalAwareness(p, eph[p], meFile[p])]
                           ELSE awareness
           /\ IF r = NoId
              THEN /\ isHost' = [isHost EXCEPT ![p] = TRUE]
                   /\ peerObjs' = [peerObjs EXCEPT ![p] =
                                     Append(objs, NewPeer("events", NoId, NoId))]
                   /\ peer' = [peer EXCEPT ![p] = Len(objs) + 1]
              ELSE /\ isHost' = isHost
                   /\ peerObjs' = [peerObjs EXCEPT ![p] =
                                     Append(objs, NewPeer("claim", r, NoId))]
                   /\ peer' = peer
    /\ hist' = [hist EXCEPT !.joins = @ + 1,
                            !.hostTrans[p] = IF r = NoId THEN @ + 1 ELSE @]
    /\ UNCHANGED <<storeVars, eph, meFile, roomId, callbackVars, opfs, files,
                   currentFile, lastSavedContent,
                   autoSaveTimer, isApplyingRemote>>

\* a suspended async callback of the bridge: kind "pass" (remote-change
\* callback) or "host" (host callback); pc names the await it is suspended on
Task(kind, pc, todo, content) ==
    [kind |-> kind, pc |-> pc, todo |-> todo, content |-> content]

\* 'open' of the Peer created by joinRoom to claim the room identifier
claimOpen(p, i) ==
    LET obj == peerObjs[p][i]
        e == ephSet(p, eph[p], meFile[p])
    IN  /\ obj.kind = "claim"
        /\ ~Registered(obj.want)
        /\ peerObjs' = [peerObjs EXCEPT ![p][i].st = "open", ![p][i].id = obj.want]
        /\ isHost' = [isHost EXCEPT ![p] = TRUE]
        /\ peer' = [peer EXCEPT ![p] = i]
        /\ roomId' = [roomId EXCEPT ![p] = obj.want]
        /\ eph' = [eph EXCEPT ![p] = e]
        /\ awareness' = [awareness EXCEPT ![p] = updateLocalAwareness(p, e, meFile[p])]
        /\ msgs' = msgs (+) SetToBag(broadcast(connections[p], conns,
                                EphMsg({<<p, e[p].ts, e[p].file>>}), NoId))
        /\ tasks' = IF onBecameHost[p]
                    THEN [tasks EXCEPT ![p] = Append(@, Task("host", "list", <<>>, <<>>))]
                    ELSE tasks
        /\ hist' = [hist EXCEPT !.hostTrans[p] = @ + 1,
                                !.hostCalls[p] = IF onBecameHost[p] THEN @ + 1 ELSE @]
        /\ UNCHANGED <<storeVars, meFile, connections, callbackVars, conns, opfs,
                       files, currentFile, lastSavedContent,
                   autoSaveTimer, isApplyingRemote>>

\* 'open' of a Peer wired by setupPeerEvents(peer, connectToRoomId)
eventsOpenNoRoom(p, i) ==
    LET obj == peerObjs[p][i]
        id == RandId(p, i)
        e == ephSet(p, eph[p], meFile[p])
        this == peer[p]
        thisOpen == this = i \/ (this # 0 /\ peerObjs[p][this].st = "open")
        thisId == IF this = i THEN id ELSE peerObjs[p][this].id
        connects == ~isHost[p] /\ obj.target # NoId
        sets == isHost[p] \/ (connects /\ thisOpen)
        host == IF Registered(obj.target) THEN Registrant(obj.target) ELSE <<"none", 0>>
    IN  /\ obj.kind = "events"
        /\ peerObjs' = [peerObjs EXCEPT ![p][i].st = "open", ![p][i].id = id]
        /\ roomId' = roomId
        /\ conns' = IF connects /\ thisOpen
                    THEN Append(conns, [cl |-> p, clObj |-> this, clId |-> thisId,
                                        srv |-> host[1], srvObj |-> host[2],
                                        srvId |-> obj.target,
                                        cst |-> "new", sst |-> "new"])
                    ELSE conns
        /\ eph' = IF sets THEN [eph EXCEPT ![p] = e] ELSE eph
        /\ awareness' = IF sets
                        THEN [awareness EXCEPT ![p] = updateLocalAwareness(p, e, meFile[p])]
                        ELSE awareness
        /\ msgs' = IF sets
                   THEN msgs (+) SetToBag(broadcast(connections[p], conns,
                                    EphMsg({<<p, e[p].ts, e[p].file>>}), NoId))
                   ELSE msgs
        /\ hist' = hist
        /\ UNCHANGED <<storeVars, meFile, isHost, peer, connections, callbackVars,
                       bridgeVars>>

eventsOpen(p, i) ==
    LET obj == peerObjs[p][i]
        id == RandId(p, i)
        e == ephSet(p, eph[p], meFile[p])
        this == peer[p]
        thisOpen == this = i \/ (this # 0 /\ peerObjs[p][this].st = "open")
        thisId == IF this = i THEN id ELSE peerObjs[p][this].id
        connects == ~isHost[p] /\ obj.target # NoId
        sets == isHost[p] \/ (connects /\ thisOpen)
        host == IF Registered(obj.target) THEN Registrant(obj.target) ELSE <<"none", 0>>
    IN  /\ obj.kind = "events"
        /\ peerObjs' = [peerObjs EXCEPT ![p][i].st = "open", ![p][i].id = id]
        /\ roomId' = IF isHost[p] THEN [roomId EXCEPT ![p] = id] ELSE roomId
        /\ conns' = IF connects /\ thisOpen
                    THEN Append(conns, [cl |-> p, clObj |-> this, clId |-> thisId,
                                        srv |-> host[1], srvObj |-> host[2],
                                        srvId |-> obj.target,
                                        cst |-> "new", sst |-> "new"])
                    ELSE conns
        /\ eph' = IF sets THEN [eph EXCEPT ![p] = e] ELSE eph
        /\ awareness' = IF sets
                        THEN [awareness EXCEPT ![p] = updateLocalAwareness(p, e, meFile[p])]
                        ELSE awareness
        /\ msgs' = IF sets
                   THEN msgs (+) SetToBag(broadcast(connections[p], conns,
                                    EphMsg({<<p, e[p].ts, e[p].file>>}), NoId))
                   ELSE msgs
        /\ hist' = hist
        /\ UNCHANGED <<storeVars, meFile, isHost, peer, connections, callbackVars,
                       bridgeVars>>

\* the broker confirms the registration of a pending Peer
BrokerOpen(p, i) ==
    /\ i \in DOMAIN peerObjs[p]
    /\ peerObjs[p][i].st = "pending"
    /\ (claimOpen(p, i) \/ eventsOpen(p, i))

\* the broker refuses the identifier: 'error' with type 'unavailable-id'
BrokerUnavailableHost(p, i) ==
    /\ i \in DOMAIN peerObjs[p]
    /\ peerObjs[p][i].st = "pending"
    /\ peerObjs[p][i].kind = "claim"
    /\ Registered(peerObjs[p][i].want)
    /\ peerObjs' = [peerObjs EXCEPT ![p] =
                      Append([@ EXCEPT ![i].st = "destroyed"],
                             NewPeer("events", NoId, peerObjs[p][i].want))]
    /\ isHost' = [isHost EXCEPT ![p] = TRUE]
    /\ peer' = [peer EXCEPT ![p] = Len(peerObjs[p]) + 1]
    /\ hist' = hist
    /\ UNCHANGED <<storeVars, presenceVars, roomId, connections, callbackVars,
                   netVars, bridgeVars>>
BrokerUnavailable(p, i) ==
    /\ i \in DOMAIN peerObjs[p]
    /\ peerObjs[p][i].st = "pending"
    /\ peerObjs[p][i].kind = "claim"
    /\ Registered(peerObjs[p][i].want)
    /\ peerObjs' = [peerObjs EXCEPT ![p] =
                      Append([@ EXCEPT ![i].st = "destroyed"],
                             NewPeer("events", NoId, peerObjs[p][i].want))]
    /\ isHost' = [isHost EXCEPT ![p] = FALSE]
    /\ peer' = [peer EXCEPT ![p] = Len(peerObjs[p]) + 1]
    /\ hist' = hist
    /\ UNCHANGED <<storeVars, presenceVars, roomId, connections, callbackVars,
                   netVars, bridgeVars>>

\* the claim fails with an error other than 'unavailable-id' (network,
\* server-error, ...): the handler logs it (line 261) and does nothing else;
\* PeerJS has destroyed the Peer
BrokerError(p, i) ==
    /\ i \in DOMAIN peerObjs[p]
    /\ peerObjs[p][i].st = "pending"
    /\ peerObjs[p][i].kind = "claim"
    /\ peerObjs' = [peerObjs EXCEPT ![p][i].st = "failed"]
    /\ hist' = hist
    /\ UNCHANGED <<storeVars, presenceVars, isHost, roomId, peer, connections,
                   callbackVars, netVars, bridgeVars>>

\* conn.on('open') of one endpoint
ConnOpenUpdate(k, side) ==
    /\ k \in DOMAIN conns
    /\ conns[k].srv # "none"
    /\ EndState(k, side) = "new"
    /\ EndState(k, Other(side)) \in {"new", "open"}
    /\ LET p == EndStore(k, side)
           st == encodeAll(eph[p])
       IN  /\ conns' = IF side = "c" THEN [conns EXCEPT ![k].cst = "open"]
                       ELSE [conns EXCEPT ![k].sst = "open"]
           /\ connections' = [connections EXCEPT ![p] =
                                 MapSet(@, EndPeer(k, side), <<k, side>>)]
           /\ msgs' = msgs (+) SetToBag(
                        {Flight(k, Other(side), DocMsg("update", ExportFrom(oplog[p], lastFrontiers[p])))}
                        \cup (IF st # {} THEN {Flight(k, Other(side), EphMsg(st))}
                              ELSE {}))
           /\ hist' = [hist EXCEPT
                        !.snap = IF side = "s"
                                 THEN MapSet(@, k, [files |-> filePaths[p],
                                                    log |-> oplog[p]])
                                 ELSE @]
    /\ UNCHANGED <<storeVars, presenceVars, isHost, roomId, peer, peerObjs,
                   callbackVars, bridgeVars>>

ConnOpen(k, side) ==
    /\ k \in DOMAIN conns
    /\ conns[k].srv # "none"
    /\ EndState(k, side) = "new"
    /\ EndState(k, Other(side)) \in {"new", "open"}
    /\ LET p == EndStore(k, side)
           st == encodeAll(eph[p])
       IN  /\ conns' = IF side = "c" THEN [conns EXCEPT ![k].cst = "open"]
                       ELSE [conns EXCEPT ![k].sst = "open"]
           /\ connections' = [connections EXCEPT ![p] =
                                 MapSet(@, EndPeer(k, side), <<k, side>>)]
           /\ msgs' = msgs (+) SetToBag(
                        {Flight(k, Other(side), DocMsg("sync", ExportSnapshot(oplog[p])))}
                        \cup (IF st # {} THEN {Flight(k, Other(side), EphMsg(st))}
                              ELSE {}))
           /\ hist' = [hist EXCEPT
                        !.snap = IF side = "s"
                                 THEN MapSet(@, k, [files |-> filePaths[p],
                                                    log |-> oplog[p]])
                                 ELSE @]
    /\ UNCHANGED <<storeVars, presenceVars, isHost, roomId, peer, peerObjs,
                   callbackVars, bridgeVars>>

\* conn.on('close') of an endpoint whose remote peer went away
ConnClose(k, side) ==
    /\ k \in DOMAIN conns
    /\ EndState(k, side) = "closing"
    /\ LET p == EndStore(k, side)
       IN  /\ conns' = IF side = "c" THEN [conns EXCEPT ![k].cst = "closed"]
                       ELSE [conns EXCEPT ![k].sst = "closed"]
           /\ connections' = [connections EXCEPT ![p] = MapDel(@, EndPeer(k, side))]
           /\ awareness' = [awareness EXCEPT ![p] =
                               updateLocalAwareness(p, eph[p], meFile[p])]
           /\ hist' = hist
    /\ UNCHANGED <<storeVars, eph, meFile, isHost, roomId, peer, peerObjs,
                   callbackVars, msgs, bridgeVars>>

\* conn.on('error') of an open endpoint: the handler writes to the console
\* and nothing else. Whether the library keeps the data channel open after
\* the error or closes it (the 'close' handlers then run later) is not
\* determined by the program.
ConnError(k, side, closes) ==
    /\ k \in DOMAIN conns
    /\ EndState(k, side) = "open"
    /\ hist.errors < MaxErrors
    /\ conns' = IF closes
                THEN LET far(st) == IF st = "open" THEN "closing"
                                    ELSE IF st = "new" THEN "closed" ELSE st
                     IN  [conns EXCEPT
                            ![k].cst = IF side = "c" THEN "closing" ELSE far(@),
                            ![k].sst = IF side = "s" THEN "closing" ELSE far(@)]
                ELSE conns
    /\ msgs' = dropClosed(conns', msgs)
    /\ hist' = [hist EXCEPT !.errors = @ + 1]
    /\ UNCHANGED <<storeVars, presenceVars, isHost, roomId, peer, peerObjs,
                   connections, callbackVars, bridgeVars>>

\* setCurrentFile(fileId): me.currentFileId changes and ephemeral.set fires
\* the local-update listener, which refreshes the awareness list and
\* broadcasts the encoded update
setCurrentFileUnsent(p, fileId) ==
    LET e == ephSet(p, eph[p], fileId)
    IN  /\ hist.presence < MaxPresence
        /\ meFile' = [meFile EXCEPT ![p] = fileId]
        /\ eph' = [eph EXCEPT ![p] = e]
        /\ awareness' = [awareness EXCEPT ![p] = updateLocalAwareness(p, e, fileId)]
        /\ msgs' = msgs
        /\ hist' = [hist EXCEPT !.presence = @ + 1]
        /\ UNCHANGED <<storeVars, sessionVars, callbackVars, conns, bridgeVars>>
setCurrentFile(p, fileId) ==
    LET e == ephSet(p, eph[p], fileId)
    IN  /\ hist.presence < MaxPresence
        /\ meFile' = [meFile EXCEPT ![p] = fileId]
        /\ eph' = [eph EXCEPT ![p] = e]
        /\ awareness' = [awareness EXCEPT ![p] = updateLocalAwareness(p, e, fileId)]
        /\ msgs' = msgs (+) SetToBag(broadcast(connections[p], conns,
                                EphMsg({<<p, e[p].ts, e[p].file>>}), NoId))
        /\ hist' = [hist EXCEPT !.presence = @ + 1]
        /\ UNCHANGED <<storeVars, sessionVars, callbackVars, conns, bridgeVars>>

\* ---------------------------------------------------------- Document Model
PathSeq(fp) == SelectSeq(PathOrder, LAMBDA x : x \in fp)

\* the remote-change callback of setupLoroSync up to its first await
PassTask(log, fp) ==
    IF PathSeq(fp) = <<>> THEN Task("pass", "list", <<>>, <<>>)
    ELSE Task("pass", "write", PathSeq(fp), getFile(log, PathSeq(fp)[1]))

RECURSIVE Repeat(_, _)
Repeat(x, n) == IF n = 0 THEN <<>> ELSE <<x>> \o Repeat(x, n - 1)

NewOp(p, log, path, c) ==
    [id |-> <<p, Cardinality({o \in OpsOf(log) : o.id[1] = p}) + 1>>,
     path |-> path,
     del |-> {o.id : o \in LiveOps(log, path)},
     ins |-> c]

\* setFile(path, content) with the doc.subscribe listener it triggers:
\* the new log, registry and version marker, the messages sent and
\* whether the remote-change callback was called
setFileAlways(p, path, c) ==
    LET log == Append(oplog[p], NewOp(p, oplog[p], path, c))
        local == ~applyingRemote[p]
        upd == ExportFrom(log, lastFrontiers[p])
    IN  [log |-> log,
         fp |-> filePaths[p] \cup {path},
         lf |-> IF local THEN oplogVersion(log) ELSE lastFrontiers[p],
         out |-> IF local /\ upd # {}
                 THEN broadcast(connections[p], conns, DocMsg("update", upd), NoId)
                 ELSE {},
         notify |-> ~local /\ onRemoteChange[p]]
setFileKeepMarker(p, path, c) ==
    LET changed == getFile(oplog[p], path) # c
        log == IF changed THEN Append(oplog[p], NewOp(p, oplog[p], path, c))
               ELSE oplog[p]
        local == changed /\ ~applyingRemote[p]
        upd == ExportFrom(log, lastFrontiers[p])
    IN  [log |-> log,
         fp |-> filePaths[p] \cup {path},
         lf |-> lastFrontiers[p],
         out |-> IF local /\ upd # {}
                 THEN broadcast(connections[p], conns, DocMsg("update", upd), NoId)
                 ELSE {},
         notify |-> changed /\ applyingRemote[p] /\ onRemoteChange[p]]
setFileIfChanged(p, path, c) ==
    LET changed == getFile(oplog[p], path) # c
        log == IF changed THEN Append(oplog[p], NewOp(p, oplog[p], path, c))
               ELSE oplog[p]
        local == changed /\ ~applyingRemote[p]
        upd == ExportFrom(log, lastFrontiers[p])
    IN  [log |-> log,
         fp |-> IF changed THEN filePaths[p] \cup {path} ELSE filePaths[p],
         lf |-> IF local THEN oplogVersion(log) ELSE lastFrontiers[p],
         out |-> IF local /\ upd # {}
                 THEN broadcast(connections[p], conns, DocMsg("update", upd), NoId)
                 ELSE {},
         notify |-> changed /\ applyingRemote[p] /\ onRemoteChange[p]]
setFile(p, path, c) ==
    LET changed == getFile(oplog[p], path) # c
        log == IF changed THEN Append(oplog[p], NewOp(p, oplog[p], path, c))
               ELSE oplog[p]
        local == changed /\ ~applyingRemote[p]
        upd == ExportFrom(log, lastFrontiers[p])
    IN  [log |-> log,
         fp |-> filePaths[p] \cup {path},
         lf |-> IF local THEN oplogVersion(log) ELSE lastFrontiers[p],
         out |-> IF local /\ upd # {}
                 THEN broadcast(connections[p], conns, DocMsg("update", upd), NoId)
                 ELSE {},
         notify |-> changed /\ applyingRemote[p] /\ onRemoteChange[p]]

\* lines 374-377 of handleMessage: the flag is raised, the payload imported,
\* the version marker moved and the flag lowered; an import that throws
\* leaves through the catch block
docImportReset(p, m) ==
    IF m.ok
    THEN [log |-> Import(oplog[p], m.ops),
          lf |-> oplogVersion(Import(oplog[p], m.ops)),
          flag |-> FALSE]
    ELSE [log |-> oplog[p], lf |-> {}, flag |-> TRUE]
docImport(p, m) ==
    IF m.ok
    THEN [log |-> Import(oplog[p], m.ops),
          lf |-> oplogVersion(Import(oplog[p], m.ops)),
          flag |-> FALSE]
    ELSE [log |-> oplog[p], lf |-> lastFrontiers[p], flag |-> TRUE]

\* handleMessage(msg, senderId); bag is the rest of the messages in flight
handleMessageEcho(p, m, senderId, bag) ==
    LET d == docImport(p, m)
        calls == IF ~onRemoteChange[p] THEN 0
                 ELSE IF d.log # oplog[p] THEN 2 ELSE 1
        relay == IF isHost[p] THEN broadcast(connections[p], conns, m, NoId)
                 ELSE {}
        e == ephApply(eph[p], m.st)
    IN  /\ IF m.type \in {"sync", "update"}
           THEN /\ oplog' = [oplog EXCEPT ![p] = d.log]
                /\ lastFrontiers' = [lastFrontiers EXCEPT ![p] = d.lf]
                /\ applyingRemote' = [applyingRemote EXCEPT ![p] = d.flag]
                /\ msgs' = IF m.ok THEN bag (+) SetToBag(relay) ELSE bag
                /\ tasks' = IF m.ok
                            THEN [tasks EXCEPT ![p] =
                                    @ \o Repeat(PassTask(d.log, filePaths[p]), calls)]
                            ELSE tasks
                /\ isApplyingRemote' = IF m.ok /\ calls > 0
                                       THEN [isApplyingRemote EXCEPT ![p] = TRUE]
                                       ELSE isApplyingRemote
                /\ UNCHANGED <<eph, awareness>>
           ELSE IF m.ok
                THEN /\ eph' = [eph EXCEPT ![p] = e]
                     /\ awareness' = [awareness EXCEPT ![p] =
                                         updateLocalAwareness(p, e, meFile[p])]
                     /\ msgs' = bag (+) SetToBag(relay)
                     /\ UNCHANGED <<oplog, lastFrontiers, applyingRemote, tasks,
                                    isApplyingRemote>>
                ELSE /\ msgs' = bag
                     /\ UNCHANGED <<oplog, lastFrontiers, applyingRemote, eph,
                                    awareness, tasks, isApplyingRemote>>
        /\ UNCHANGED <<filePaths, meFile, sessionVars, callbackVars, conns, opfs,
                       files, currentFile, lastSavedContent,
                   autoSaveTimer>>

handleMessageRelayFirst(p, m, senderId, bag) ==
    LET d == docImport(p, m)
        calls == IF ~onRemoteChange[p] THEN 0
                 ELSE IF d.log # oplog[p] THEN 2 ELSE 1
        relay == IF isHost[p] THEN broadcast(connections[p], conns, m, senderId)
                 ELSE {}
        e == ephApply(eph[p], m.st)
    IN  /\ IF m.type \in {"sync", "update"}
           THEN /\ oplog' = [oplog EXCEPT ![p] = d.log]
                /\ lastFrontiers' = [lastFrontiers EXCEPT ![p] = d.lf]
                /\ applyingRemote' = [applyingRemote EXCEPT ![p] = d.flag]
                /\ msgs' = bag (+) SetToBag(relay)
                /\ tasks' = IF m.ok
                            THEN [tasks EXCEPT ![p] =
                                    @ \o Repeat(PassTask(d.log, filePaths[p]), calls)]
                            ELSE tasks
                /\ isApplyingRemote' = IF m.ok /\ calls > 0
                                       THEN [isApplyingRemote EXCEPT ![p] = TRUE]
                                       ELSE isApplyingRemote
                /\ UNCHANGED <<eph, awareness>>
           ELSE IF m.ok
                THEN /\ eph' = [eph EXCEPT ![p] = e]
                     /\ awareness' = [awareness EXCEPT ![p] =
                                         updateLocalAwareness(p, e, meFile[p])]
                     /\ msgs' = bag (+) SetToBag(relay)
                     /\ UNCHANGED <<oplog, lastFrontiers, applyingRemote, tasks,
                                    isApplyingRemote>>
                ELSE /\ msgs' = bag (+) SetToBag(relay)
                     /\ UNCHANGED <<oplog, lastFrontiers, applyingRemote, eph,
                                    awareness, tasks, isApplyingRemote>>
        /\ UNCHANGED <<filePaths, meFile, sessionVars, callbackVars, conns, opfs,
                       files, currentFile, lastSavedContent,
                   autoSaveTimer>>
handleMessage(p, m, senderId, bag) ==
    LET d == docImport(p, m)
        calls == IF ~onRemoteChange[p] THEN 0
                 ELSE IF d.log # oplog[p] THEN 2 ELSE 1
        relay == IF isHost[p] THEN broadcast(connections[p], conns, m, senderId)
                 ELSE {}
        e == ephApply(eph[p], m.st)
    IN  /\ IF m.type \in {"sync", "update"}
           THEN /\ oplog' = [oplog EXCEPT ![p] = d.log]
                /\ lastFrontiers' = [lastFrontiers EXCEPT ![p] = d.lf]
                /\ applyingRemote' = [applyingRemote EXCEPT ![p] = d.flag]
                /\ msgs' = IF m.ok THEN bag (+) SetToBag(relay) ELSE bag
                /\ tasks' = IF m.ok
                            THEN [tasks EXCEPT ![p] =
                                    @ \o Repeat(PassTask(d.log, filePaths[p]), calls)]
                            ELSE tasks
                /\ isApplyingRemote' = IF m.ok /\ calls > 0
                                       THEN [isApplyingRemote EXCEPT ![p] = TRUE]
                                       ELSE isApplyingRemote
                /\ UNCHANGED <<eph, awareness>>
           ELSE IF m.ok
                THEN /\ eph' = [eph EXCEPT ![p] = e]
                     /\ awareness' = [awareness EXCEPT ![p] =
                                         updateLocalAwareness(p, e, meFile[p])]
                     /\ msgs' = bag (+) SetToBag(relay)
                     /\ UNCHANGED <<oplog, lastFrontiers, applyingRemote, tasks,
                                    isApplyingRemote>>
                ELSE /\ msgs' = bag
                     /\ UNCHANGED <<oplog, lastFrontiers, applyingRemote, eph,
                                    awareness, tasks, isApplyingRemote>>
        /\ UNCHANGED <<filePaths, meFile, sessionVars, callbackVars, conns, opfs,
                       files, currentFile, lastSavedContent,
                   autoSaveTimer>>

\* conn.on('data'): a message in flight reaches an open endpoint
Deliver(f) ==
    /\ BagIn(f, msgs)
    /\ EndState(f.k, f.to) = "open"
    /\ handleMessage(EndStore(f.k, f.to), f.m, EndPeer(f.k, f.to),
                     msgs (-) SetToBag({f}))
    /\ LET p == EndStore(f.k, f.to)
           doc == f.m.type # "ephemeral"
       IN  hist' = [hist EXCEPT
                      !.received[p] = @ \cup {o.id : o \in f.m.ops},
                      !.dups = IF doc /\ f.m.ops # {} /\ f.m.ops \in hist.seen[p]
                               THEN @ \cup {p} ELSE @,
                      !.seen[p] = IF doc THEN @ \cup {f.m.ops} ELSE @,
                      !.docMsgs[p] = IF doc THEN @ + 1 ELSE @,
                      !.snapDone = IF f.m.type = "sync" /\ f.to = "c"
                                   THEN @ \cup {f.k} ELSE @]

\* conn.on('data') with a payload that does not decode
DeliverCorrupt(k, side, type) ==
    /\ hist.corrupts < MaxCorrupt
    /\ k \in DOMAIN conns
    /\ EndState(k, side) = "open"
    /\ handleMessage(EndStore(k, side),
                     [type |-> type, ok |-> FALSE, ops |-> {}, st |-> {}],
                     EndPeer(k, side), msgs)
    /\ hist' = [hist EXCEPT !.corrupts = @ + 1]

\* a direct call of setFile(path, content) on a store
SetFile(p, path, c) ==
    /\ LET r == setFile(p, path, c)
       IN  /\ oplog' = [oplog EXCEPT ![p] = r.log]
           /\ filePaths' = [filePaths EXCEPT ![p] = r.fp]
           /\ lastFrontiers' = [lastFrontiers EXCEPT ![p] = r.lf]
           /\ msgs' = msgs (+) SetToBag(r.out)
           /\ tasks' = IF r.notify
                       THEN [tasks EXCEPT ![p] = Append(@, PassTask(r.log, r.fp))]
                       ELSE tasks
           /\ isApplyingRemote' = IF r.notify
                                  THEN [isApplyingRemote EXCEPT ![p] = TRUE]
                                  ELSE isApplyingRemote
    /\ hist' = [hist EXCEPT !.edits = @ + 1,
                            !.setters = @ \cup {p},
                            !.authored[p] = @ \cup (oplogVersion(setFile(p, path, c).log)
                                                        \ oplogVersion(oplog[p]))]
    /\ UNCHANGED <<applyingRemote, presenceVars, sessionVars, callbackVars, conns,
                   opfs, files, currentFile, lastSavedContent,
                   autoSaveTimer>>

\* ------------------------------------------------------ Reconciliation Bridge
\* the bridge callback t of store p resumes from the await it is suspended on:
\*   "write"  await opfs.writeFile(path, content)   (remote-change callback)
\*   "list"   await opfs.listDirectory()            (refresh / host callback)
\*   "sync"   await opfs.readFile(node.path)        (syncAllToLoro)
TaskWrite(p, t) ==
    LET task == tasks[p][t]
        path == task.todo[1]
        rest == Tail(task.todo)
        cur == currentFile[p]
        shown == cur.path = path /\ cur.content # task.content
        next == IF rest = <<>> THEN Task("pass", "list", <<>>, <<>>)
                ELSE Task("pass", "write", rest, getFile(oplog[p], rest[1]))
    IN  /\ task.pc = "write"
        /\ opfs' = [opfs EXCEPT ![p] = MapSet(@, path, task.content)]
        /\ currentFile' = IF shown
                          THEN [currentFile EXCEPT ![p].content = task.content]
                          ELSE currentFile
        /\ lastSavedContent' = IF shown
                               THEN [lastSavedContent EXCEPT ![p] = task.content]
                               ELSE lastSavedContent
        /\ tasks' = [tasks EXCEPT ![p][t] = next]
        /\ UNCHANGED <<storeVars, presenceVars, sessionVars, callbackVars, netVars,
                       files, autoSaveTimer, isApplyingRemote, hist>>

\* the callers of refresh(): its catch block empties the cached tree
RefreshKinds == {"pass", "delFile", "delFolder", "rename"}

TaskListAnyPeer(p, t) ==
    LET task == tasks[p][t]
        found == DOMAIN opfs[p]
        push == IF task.kind = "host" THEN found # {}
                ELSE filePaths[p] = {} /\ found # {}
    IN  /\ task.pc = "list"
        /\ files' = [files EXCEPT ![p] = found]
        /\ tasks' = [tasks EXCEPT ![p] =
                       IF push THEN [@ EXCEPT ![t] = Task(task.kind, "sync", PathSeq(found), <<>>)]
                       ELSE RemoveAt(@, t)]
        /\ isApplyingRemote' = IF ~push /\ task.kind = "pass"
                               THEN [isApplyingRemote EXCEPT ![p] = FALSE]
                               ELSE isApplyingRemote
        /\ hist' = IF ~push /\ task.kind = "pass"
                   THEN [hist EXCEPT !.passDone[p] = TRUE]
                   ELSE hist
        /\ UNCHANGED <<storeVars, presenceVars, sessionVars, callbackVars, netVars,
                       opfs, currentFile, lastSavedContent,
                   autoSaveTimer>>

TaskListPrune(p, t) ==
    LET task == tasks[p][t]
        kept == IF task.kind = "pass" THEN DOMAIN opfs[p] \cap filePaths[p]
                ELSE DOMAIN opfs[p]
        found == kept
        push == IF task.kind = "host" THEN found # {}
                ELSE isHost[p] /\ filePaths[p] = {} /\ found # {}
    IN  /\ task.pc = "list"
        /\ opfs' = [opfs EXCEPT ![p] = [x \in kept |-> @[x]]]
        /\ files' = [files EXCEPT ![p] = found]
        /\ tasks' = [tasks EXCEPT ![p] =
                       IF push THEN [@ EXCEPT ![t] = Task(task.kind, "sync", PathSeq(found), <<>>)]
                       ELSE RemoveAt(@, t)]
        /\ isApplyingRemote' = IF ~push /\ task.kind = "pass"
                               THEN [isApplyingRemote EXCEPT ![p] = FALSE]
                               ELSE isApplyingRemote
        /\ hist' = IF ~push /\ task.kind = "pass"
                   THEN [hist EXCEPT !.passDone[p] = TRUE]
                   ELSE hist
        /\ UNCHANGED <<storeVars, presenceVars, sessionVars, callbackVars, netVars,
                       currentFile, lastSavedContent, autoSaveTimer>>

TaskList(p, t) ==
    LET task == tasks[p][t]
        found == DOMAIN opfs[p]
        push == IF task.kind = "host" THEN found # {}
                ELSE isHost[p] /\ filePaths[p] = {} /\ found # {}
    IN  /\ task.pc = "list"
        /\ files' = [files EXCEPT ![p] = found]
        /\ tasks' = [tasks EXCEPT ![p] =
                       IF push THEN [@ EXCEPT ![t] = Task(task.kind, "sync", PathSeq(found), <<>>)]
                       ELSE RemoveAt(@, t)]
        /\ isApplyingRemote' = IF ~push /\ task.kind = "pass"
                               THEN [isApplyingRemote EXCEPT ![p] = FALSE]
                               ELSE isApplyingRemote
        /\ hist' = IF ~push /\ task.kind = "pass"
                   THEN [hist EXCEPT !.passDone[p] = TRUE]
                   ELSE hist
        /\ UNCHANGED <<storeVars, presenceVars, sessionVars, callbackVars, netVars,
                       opfs, currentFile, lastSavedContent,
                   autoSaveTimer>>

TaskSync(p, t) ==
    LET task == tasks[p][t]
        path == task.todo[1]
        rest == Tail(task.todo)
        found == path \in DOMAIN opfs[p]
        r == setFile(p, path, opfs[p][path])
        ends == ~found \/ rest = <<>>
        mine == IF ends THEN RemoveAt(tasks[p], t)
                ELSE [tasks[p] EXCEPT ![t] = Task(task.kind, "sync", rest, <<>>)]
    IN  /\ task.pc = "sync"
        /\ IF found
           THEN /\ oplog' = [oplog EXCEPT ![p] = r.log]
                /\ filePaths' = [filePaths EXCEPT ![p] = r.fp]
                /\ lastFrontiers' = [lastFrontiers EXCEPT ![p] = r.lf]
                /\ msgs' = msgs (+) SetToBag(r.out)
                /\ tasks' = [tasks EXCEPT ![p] =
                               IF r.notify THEN Append(mine, PassTask(r.log, r.fp))
                               ELSE mine]
                /\ isApplyingRemote' =
                       IF ends /\ task.kind = "pass"
                       THEN [isApplyingRemote EXCEPT ![p] = FALSE]
                       ELSE IF r.notify THEN [isApplyingRemote EXCEPT ![p] = TRUE]
                       ELSE isApplyingRemote
                /\ files' = files
                /\ hist' = [hist EXCEPT
                              !.setters = @ \cup {p},
                              !.authored[p] = @ \cup (oplogVersion(r.log)
                                                          \ oplogVersion(oplog[p])),
                              !.passSetFile[p] = @ \/ task.kind = "pass",
                              !.passSent[p] = @ \/ (task.kind = "pass" /\ r.out # {}),
                              !.passDone[p] = @ \/ (ends /\ task.kind = "pass")]
           ELSE /\ tasks' = [tasks EXCEPT ![p] = mine]
                /\ files' = IF task.kind \in RefreshKinds THEN [files EXCEPT ![p] = {}]
                            ELSE files
                /\ isApplyingRemote' = IF task.kind = "pass"
                                       THEN [isApplyingRemote EXCEPT ![p] = FALSE]
                                       ELSE isApplyingRemote
                /\ hist' = [hist EXCEPT
                              !.passDone[p] = @ \/ task.kind = "pass",
                              !.escaped[p] = @ \/ task.kind \notin RefreshKinds]
                /\ UNCHANGED <<oplog, filePaths, lastFrontiers, msgs>>
        /\ UNCHANGED <<applyingRemote, presenceVars, sessionVars, callbackVars, conns,
                       opfs, currentFile, lastSavedContent,
                   autoSaveTimer>>

\* ---------------------------------------------------------------- editing
\* saveCurrentFile() up to its first await: nothing when no saved file is
\* open or a pass is running, else the call suspended on
\* historyStore.saveVersion ("version") or on opfs.writeFile ("store"),
\* whose arguments are the path and buffer at the time of the call
saveCurrentFile(p) ==
    LET cur == currentFile[p]
    IN  IF cur.path = NoFile \/ cur.isNew \/ isApplyingRemote[p] THEN <<>>
        ELSE IF lastSavedContent[p] # <<>> /\ cur.content # lastSavedContent[p]
        THEN <<Task("save", "version", <<>>, <<>>)>>
        ELSE <<Task("save", "store", <<cur.path>>, cur.content)>>

\* manual save of the open file
Save(p) ==
    /\ currentFile[p].path # NoFile
    /\ tasks' = [tasks EXCEPT ![p] = @ \o saveCurrentFile(p)]
    /\ hist' = [hist EXCEPT !.ops = @ + 1]
    /\ UNCHANGED <<storeVars, presenceVars, sessionVars, callbackVars, netVars,
                   opfs, files, currentFile, lastSavedContent, autoSaveTimer,
                   isApplyingRemote>>

\* updateContent(content): the buffer changes and auto-save is scheduled
updateContent(p, c) ==
    /\ currentFile[p].path # NoFile
    /\ currentFile' = [currentFile EXCEPT ![p].content = c, ![p].isDirty = TRUE]
    /\ autoSaveTimer' = [autoSaveTimer EXCEPT ![p] = ~currentFile[p].isNew]
    /\ hist' = [hist EXCEPT !.ops = @ + 1]
    /\ UNCHANGED <<storeVars, presenceVars, sessionVars, callbackVars, netVars,
                   opfs, files, lastSavedContent, isApplyingRemote, tasks>>

\* the auto-save timer fires (scheduleAutoSave, lines 271-280)
AutoSaveFire(p) ==
    /\ autoSaveTimer[p]
    /\ autoSaveTimer' = [autoSaveTimer EXCEPT ![p] = FALSE]
    /\ tasks' = [tasks EXCEPT ![p] =
                   IF currentFile[p].path # NoFile /\ currentFile[p].isDirty
                      /\ ~currentFile[p].isNew
                   THEN @ \o saveCurrentFile(p) ELSE @]
    /\ hist' = hist
    /\ UNCHANGED <<storeVars, presenceVars, sessionVars, callbackVars, netVars,
                   opfs, files, currentFile, lastSavedContent, isApplyingRemote>>

\* saveCurrentFile resumes from historyStore.saveVersion and calls
\* opfs.writeFile(currentFile.path, currentFile.content); a file closed in
\* the meantime makes that expression throw
TaskVersion(p, t) ==
    LET cur == currentFile[p]
    IN  /\ tasks[p][t].pc = "version"
        /\ tasks' = [tasks EXCEPT ![p] =
                       IF cur.path = NoFile THEN RemoveAt(@, t)
                       ELSE [@ EXCEPT ![t] = Task("save", "store", <<cur.path>>,
                                                  cur.content)]]
        /\ UNCHANGED <<storeVars, presenceVars, sessionVars, callbackVars, netVars,
                       opfs, files, currentFile, lastSavedContent, autoSaveTimer,
                       isApplyingRemote, hist>>

\* saveCurrentFile resumes from opfs.writeFile, which stored the content it
\* was called with: setFile(currentFile.path, currentFile.content),
\* lastSavedContent = currentFile.content, isDirty = false (lines 249-252)
TaskStore(p, t) ==
    LET task == tasks[p][t]
        cur == currentFile[p]
        r == setFile(p, cur.path, cur.content)
        mine == RemoveAt(tasks[p], t)
    IN  /\ task.pc = "store"
        /\ opfs' = [opfs EXCEPT ![p] = MapSet(@, task.todo[1], task.content)]
        /\ IF cur.path = NoFile
           THEN /\ tasks' = [tasks EXCEPT ![p] = mine]
                /\ hist' = hist
                /\ UNCHANGED <<oplog, filePaths, lastFrontiers, msgs, currentFile,
                               lastSavedContent, isApplyingRemote>>
           ELSE /\ oplog' = [oplog EXCEPT ![p] = r.log]
                /\ filePaths' = [filePaths EXCEPT ![p] = r.fp]
                /\ lastFrontiers' = [lastFrontiers EXCEPT ![p] = r.lf]
                /\ msgs' = msgs (+) SetToBag(r.out)
                /\ tasks' = [tasks EXCEPT ![p] =
                               IF r.notify THEN Append(mine, PassTask(r.log, r.fp))
                               ELSE mine]
                /\ isApplyingRemote' = IF r.notify
                                       THEN [isApplyingRemote EXCEPT ![p] = TRUE]
                                       ELSE isApplyingRemote
                /\ lastSavedContent' = [lastSavedContent EXCEPT ![p] = cur.content]
                /\ currentFile' = [currentFile EXCEPT ![p].isDirty = FALSE]
                /\ hist' = [hist EXCEPT
                              !.setters = @ \cup {p},
                              !.authored[p] = @ \cup (oplogVersion(r.log)
                                                          \ oplogVersion(oplog[p]))]
        /\ UNCHANGED <<applyingRemote, presenceVars, sessionVars, callbackVars,
                       conns, files, autoSaveTimer>>

\* the files below a folder of the tree
Folders == {"d"}
Children(folder) == {"m"}

\* filesMap.delete(path): the operation on the 'files' map that the delete
\* commits (emits), exported by the doc.subscribe listener like any local
\* change; deleteFile(path) also forgets the path
deleteFile(p, path, emits) ==
    LET op == [id |-> <<p, Cardinality({o \in OpsOf(oplog[p]) : o.id[1] = p}) + 1>>,
               path |-> "files", del |-> {}, ins |-> <<>>]
        log == IF emits THEN Append(oplog[p], op) ELSE oplog[p]
        local == emits /\ ~applyingRemote[p]
        upd == ExportFrom(log, lastFrontiers[p])
    IN  [log |-> log,
         fp |-> filePaths[p] \ {path},
         lf |-> IF local THEN oplogVersion(log) ELSE lastFrontiers[p],
         out |-> IF local /\ upd # {}
                 THEN broadcast(connections[p], conns, DocMsg("update", upd), NoId)
                 ELSE {},
         notify |-> emits /\ applyingRemote[p] /\ onRemoteChange[p]]

\* deleteItem(path, isFolder) up to its first await
deleteItem(p, path, isFolder) ==
    /\ tasks' = [tasks EXCEPT ![p] =
                   Append(@, Task(IF isFolder THEN "delFolder" ELSE "delFile",
                                  "remove", <<path>>, <<>>))]
    /\ hist' = [hist EXCEPT !.ops = @ + 1]
    /\ UNCHANGED <<storeVars, presenceVars, sessionVars, callbackVars, netVars,
                   opfs, files, currentFile, lastSavedContent, autoSaveTimer,
                   isApplyingRemote>>

\* deleteItem resumes from opfs.deleteFolder / opfs.deleteFile: a folder is
\* gone with its files and nothing is told to the document (the TODO of line
\* 297); a file is deleted in the document too (line 302); removeEntry of a
\* missing entry throws and deleteItem rethrows
TaskRemove(p, t) ==
    LET task == tasks[p][t]
        path == task.todo[1]
        folder == task.kind = "delFolder"
        gone == IF folder THEN Children(path) ELSE {path}
        missing == IF folder THEN FALSE ELSE path \notin DOMAIN opfs[p]
    IN  /\ task.pc = "remove"
        /\ opfs' = [opfs EXCEPT ![p] = [x \in (DOMAIN @) \ gone |-> @[x]]]
        /\ IF folder \/ missing
           THEN /\ tasks' = [tasks EXCEPT ![p] =
                               IF missing THEN RemoveAt(@, t)
                               ELSE [@ EXCEPT ![t] = Task(task.kind, "list", <<>>, <<>>)]]
                /\ hist' = IF missing THEN hist
                           ELSE [hist EXCEPT !.deleted[p] = @ \cup gone]
                /\ UNCHANGED <<oplog, filePaths, lastFrontiers, msgs,
                               isApplyingRemote>>
           ELSE \E emits \in BOOLEAN :
                  LET r == deleteFile(p, path, emits)
                      mine == [tasks[p] EXCEPT ![t] = Task(task.kind, "history",
                                                          <<path>>, <<>>)]
                  IN  /\ oplog' = [oplog EXCEPT ![p] = r.log]
                      /\ filePaths' = [filePaths EXCEPT ![p] = r.fp]
                      /\ lastFrontiers' = [lastFrontiers EXCEPT ![p] = r.lf]
                      /\ msgs' = msgs (+) SetToBag(r.out)
                      /\ tasks' = [tasks EXCEPT ![p] =
                                     IF r.notify THEN Append(mine, PassTask(r.log, r.fp))
                                     ELSE mine]
                      /\ isApplyingRemote' = IF r.notify
                                             THEN [isApplyingRemote EXCEPT ![p] = TRUE]
                                             ELSE isApplyingRemote
                      /\ hist' = [hist EXCEPT !.deleted[p] = @ \cup gone]
        /\ UNCHANGED <<applyingRemote, presenceVars, sessionVars, callbackVars,
                       conns, files, currentFile, lastSavedContent, autoSaveTimer>>

\* deleteItem resumes from historyStore.clearHistory: the file is closed if
\* it was the open one, then refresh() is awaited (lines 308-314)
TaskHistory(p, t) ==
    LET task == tasks[p][t]
        open == currentFile[p].path = task.todo[1]
    IN  /\ task.pc = "history"
        /\ currentFile' = IF open THEN [currentFile EXCEPT ![p] = NoFileRec]
                          ELSE currentFile
        /\ lastSavedContent' = IF open THEN [lastSavedContent EXCEPT ![p] = <<>>]
                               ELSE lastSavedContent
        /\ tasks' = [tasks EXCEPT ![p][t] = Task(task.kind, "list", <<>>, <<>>)]
        /\ UNCHANGED <<storeVars, presenceVars, sessionVars, callbackVars, netVars,
                       opfs, files, autoSaveTimer, isApplyingRemote, hist>>

\* renameItem(oldPath, newName) of a file up to its first await: the new
\* path is built and getFile(oldPath) is read before opfs.rename is awaited
renameItem(p, oldPath, newPath) ==
    /\ tasks' = [tasks EXCEPT ![p] =
                   Append(@, Task("rename", "rename", <<oldPath, newPath>>,
                                  getFile(oplog[p], oldPath)))]
    /\ hist' = [hist EXCEPT !.ops = @ + 1]
    /\ UNCHANGED <<storeVars, presenceVars, sessionVars, callbackVars, netVars,
                   opfs, files, currentFile, lastSavedContent, autoSaveTimer,
                   isApplyingRemote>>

\* lines 340-343 of renameItem: setFile(newPath, loroContent) followed by
\* deleteFile(oldPath), each exported by the doc.subscribe listener
renameInDoc(p, oldPath, newPath, c, emits) ==
    LET r == setFile(p, newPath, c)
        op == [id |-> <<p, Cardinality({o \in OpsOf(r.log) : o.id[1] = p}) + 1>>,
               path |-> "files", del |-> {}, ins |-> <<>>]
        log == IF emits THEN Append(r.log, op) ELSE r.log
        local == emits /\ ~applyingRemote[p]
        upd == ExportFrom(log, r.lf)
    IN  [log |-> log,
         fp |-> r.fp \ {oldPath},
         lf |-> IF local THEN oplogVersion(log) ELSE r.lf,
         out |-> IF local /\ upd # {}
                 THEN broadcast(connections[p], conns, DocMsg("update", upd), NoId)
                 ELSE {},
         first |-> r.out,
         notify |-> (r.notify \/ emits) /\ applyingRemote[p] /\ onRemoteChange[p]]

\* renameItem resumes from opfs.rename (copy to the new path, delete the
\* old one; a missing file makes it throw and renameItem rethrows): the
\* document follows only if (loroContent) holds, the open file takes the
\* new path and refresh() is awaited
TaskRename(p, t) ==
    LET task == tasks[p][t]
        oldPath == task.todo[1]
        newPath == task.todo[2]
        missing == oldPath \notin DOMAIN opfs[p]
        moved == [x \in ((DOMAIN opfs[p]) \ {oldPath}) \cup {newPath} |->
                     IF x = newPath THEN opfs[p][oldPath] ELSE opfs[p][x]]
        mine == [tasks[p] EXCEPT ![t] = Task("rename", "list", <<>>, <<>>)]
    IN  /\ task.pc = "rename"
        /\ IF missing
           THEN /\ tasks' = [tasks EXCEPT ![p] = RemoveAt(@, t)]
                /\ hist' = hist
                /\ UNCHANGED <<oplog, filePaths, lastFrontiers, msgs, opfs,
                               currentFile, isApplyingRemote>>
           ELSE /\ opfs' = [opfs EXCEPT ![p] = moved]
                /\ currentFile' = IF currentFile[p].path = oldPath
                                  THEN [currentFile EXCEPT ![p].path = newPath]
                                  ELSE currentFile
                /\ hist' = [hist EXCEPT !.renamed[p] =
                                <<oldPath, newPath, opfs[p][oldPath],
                                  oldPath \in filePaths[p]
                                      /\ getFile(oplog[p], oldPath) = opfs[p][oldPath]>>]
                /\ IF task.content = <<>>
                   THEN /\ tasks' = [tasks EXCEPT ![p] = mine]
                        /\ UNCHANGED <<oplog, filePaths, lastFrontiers, msgs,
                                       isApplyingRemote>>
                   ELSE \E emits \in BOOLEAN :
                          LET r == renameInDoc(p, oldPath, newPath, task.content, emits)
                          IN  /\ oplog' = [oplog EXCEPT ![p] = r.log]
                              /\ filePaths' = [filePaths EXCEPT ![p] = r.fp]
                              /\ lastFrontiers' = [lastFrontiers EXCEPT ![p] = r.lf]
                              /\ msgs' = (msgs (+) SetToBag(r.first)) (+) SetToBag(r.out)
                              /\ tasks' = [tasks EXCEPT ![p] =
                                             IF r.notify
                                             THEN Append(mine, PassTask(r.log, r.fp))
                                             ELSE mine]
                              /\ isApplyingRemote' =
                                     IF r.notify
                                     THEN [isApplyingRemote EXCEPT ![p] = TRUE]
                                     ELSE isApplyingRemote
        /\ UNCHANGED <<applyingRemote, presenceVars, sessionVars, callbackVars,
                       conns, files, lastSavedContent, autoSaveTimer>>

\* opfs.writeFile of a pass throws: the catch block of the change callback
\* logs, the rest of the loop and refresh() are skipped, finally lowers
\* isApplyingRemote (lines 93-97)
TaskWriteFail(p, t) ==
    /\ t \in DOMAIN tasks[p]
    /\ tasks[p][t].pc = "write"
    /\ hist.fails < MaxFail
    /\ tasks' = [tasks EXCEPT ![p] = RemoveAt(@, t)]
    /\ isApplyingRemote' = [isApplyingRemote EXCEPT ![p] = FALSE]
    /\ hist' = [hist EXCEPT !.fails = @ + 1]
    /\ UNCHANGED <<storeVars, presenceVars, sessionVars, callbackVars, netVars,
                   opfs, files, currentFile, lastSavedContent, autoSaveTimer>>

TaskStep(p, t) ==
    /\ t \in DOMAIN tasks[p]
    /\ \/ TaskWrite(p, t) \/ TaskList(p, t) \/ TaskSync(p, t)
       \/ TaskVersion(p, t) \/ TaskStore(p, t)
       \/ TaskRemove(p, t) \/ TaskHistory(p, t) \/ TaskRename(p, t)

\* ShareModal onMount: joinRoom(null), then filesStore.syncAllToLoro()
ShareModalMount(p) ==
    /\ roomId[p] = NoId
    /\ \A i \in DOMAIN peerObjs[p] : peerObjs[p][i].kind # "claim"
    /\ joinRoom(p, NoId)
    /\ tasks' = [tasks EXCEPT ![p] =
                   IF files[p] = {} THEN @
                   ELSE Append(@, Task("share", "sync", PathSeq(files[p]), <<>>))]

\* ------------------------------------------------------------ specifications
InitHist ==
    [joins |-> 0, edits |-> 0, corrupts |-> 0, ops |-> 0, fails |-> 0, errors |-> 0, presence |-> 0,
     renamed |-> [p \in Peers |-> <<>>],
     escaped |-> [p \in Peers |-> FALSE],
     deleted |-> [p \in Peers |-> {}],
     hostTrans |-> [p \in Peers |-> 0],
     hostCalls |-> [p \in Peers |-> 0],
     received |-> [p \in Peers |-> {}],
     seen |-> [p \in Peers |-> {}],
     snap |-> EmptyMap,
     setters |-> {},
     authored |-> [p \in Peers |-> {}],
     dups |-> {},
     snapDone |-> {},
     docMsgs |-> [p \in Peers |-> 0],
     passSetFile |-> [p \in Peers |-> FALSE],
     passSent |-> [p \in Peers |-> FALSE],
     passDone |-> [p \in Peers |-> FALSE]]

\* the stores after construction: new LoroStore(), createFilesStore()
InitStores ==
    /\ oplog = [p \in Peers |-> <<>>]
    /\ filePaths = [p \in Peers |-> {}]
    /\ applyingRemote = [p \in Peers |-> FALSE]
    /\ lastFrontiers = [p \in Peers |-> {}]
    /\ eph = [p \in Peers |-> [q \in Peers |-> [ts |-> 0, file |-> NoFile]]]
    /\ awareness = [p \in Peers |-> {}]
    /\ meFile = [p \in Peers |-> NoFile]
    /\ isHost = [p \in Peers |-> FALSE]
    /\ roomId = [p \in Peers |-> NoId]
    /\ peer = [p \in Peers |-> 0]
    /\ peerObjs = [p \in Peers |-> <<>>]
    /\ connections = [p \in Peers |-> EmptyMap]
    /\ conns = <<>>
    /\ msgs = EmptyBag
    /\ currentFile = [p \in Peers |-> NoFileRec]
    /\ lastSavedContent = [p \in Peers |-> <<>>]
    /\ autoSaveTimer = [p \in Peers |-> FALSE]
    /\ isApplyingRemote = [p \in Peers |-> FALSE]
    /\ tasks = [p \in Peers |-> <<>>]
    /\ hist = InitHist

\* LoroStore on its own: no callback registered, setFile called directly
InitSync ==
    /\ InitStores
    /\ opfs = [p \in Peers |-> EmptyMap]
    /\ files = [p \in Peers |-> {}]
    /\ onRemoteChange = [p \in Peers |-> FALSE]
    /\ onBecameHost = [p \in Peers |-> FALSE]

\* nothing is pending: no registration, no connection set-up or tear-down,
\* no message in flight, no suspended callback
Settled ==
    /\ msgs = EmptyBag
    /\ \A p \in Peers : tasks[p] = <<>>
    /\ \A p \in Peers : \A i \in DOMAIN peerObjs[p] : peerObjs[p][i].st # "pending"
    /\ \A k \in DOMAIN conns :
          conns[k].srv = "none" \/ {conns[k].cst, conns[k].sst} \subseteq {"open", "closed"}

\* a store joins the shared room; it joins again only once its session settled
JoinShared == \E p \in Pair : \E r \in RoomIds :
                /\ peerObjs[p] = <<>> \/ Settled
                /\ joinRoom(p, r)
                /\ tasks' = tasks
Broker == \E p \in Peers : \E i \in 1..(2 * MaxJoins) :
            BrokerOpen(p, i) \/ BrokerUnavailable(p, i)
Connection == \E k \in 1..MaxJoins : \E side \in {"c", "s"} :
                ConnOpen(k, side) \/ ConnClose(k, side)
Data == \E f \in BagToSet(msgs) : Deliver(f)
Corrupt == \E k \in 1..MaxJoins : \E side \in {"c", "s"} :
             \E type \in {"sync", "update", "ephemeral"} : DeliverCorrupt(k, side, type)
LocalEdit == \E p \in Pair : \E path \in EditPaths : \E c \in Contents :
                hist.edits < MaxEdits /\ SetFile(p, path, c)
FaultEdit == \E p \in Pair : \E path \in EditPaths : \E c \in Contents :
                hist.edits < MaxFaultEdits /\ SetFile(p, path, c)

NextSync == JoinShared \/ Broker \/ Connection \/ Data \/ LocalEdit
SpecSync == InitSync /\ [][NextSync]_vars

\* the same with messages whose payload does not decode
NextFault == JoinShared \/ Broker \/ Connection \/ Data \/ Corrupt \/ FaultEdit
SpecFault == InitSync /\ [][NextFault]_vars

\* the session with claims that fail for another reason than a conflict
ClaimFail == \E p \in Pair : \E i \in 1..(2 * MaxJoins) : BrokerError(p, i)
NextClaim == JoinShared \/ Broker \/ ClaimFail \/ Connection \/ Data
SpecClaim == InitSync /\ [][NextClaim]_vars

\* a room of three stores, each joining once: the host relays between the
\* two clients; the edits are made while the network is quiet
JoinOnce == \E p \in Peers : \E r \in RoomIds :
              /\ peerObjs[p] = <<>>
              /\ joinRoom(p, r)
              /\ tasks' = tasks
RelayEdit == \E p \in Peers : \E path \in EditPaths :
                hist.edits < MaxRelayEdits /\ Settled /\ SetFile(p, path, <<"x">>)
Opening == \E k \in 1..MaxJoins : \E side \in {"c", "s"} : ConnOpen(k, side)
NextRelay == JoinOnce \/ Broker \/ Opening \/ Data \/ RelayEdit
SpecRelay == InitSync /\ [][NextRelay]_vars

\* the room of three stores where the host receives payloads that do not decode
CorruptAtHost == \E k \in 1..MaxJoins : \E side \in {"c", "s"} :
                   \E type \in {"sync", "update", "ephemeral"} :
                      /\ k \in DOMAIN conns
                      /\ isHost[EndStore(k, side)]
                      /\ DeliverCorrupt(k, side, type)
NextRelayFault == JoinOnce \/ Broker \/ Opening \/ Data \/ CorruptAtHost
SpecRelayFault == InitSync /\ [][NextRelayFault]_vars

\* three stores join the room once each and an open data channel may report
\* an error
ChannelError == \E k \in 1..MaxJoins : \E side \in {"c", "s"} : \E closes \in BOOLEAN :
                  ConnError(k, side, closes)
NextChannel == JoinOnce \/ Broker \/ Connection \/ Data \/ ChannelError
SpecChannel == InitSync /\ [][NextChannel]_vars

\* three stores join the room once each and change the file they show while
\* the network is quiet
PresenceChange == \E p \in Peers : \E fileId \in Paths :
                    Settled /\ setCurrentFile(p, fileId)
NextPresence == JoinOnce \/ Broker \/ Opening \/ Data \/ PresenceChange
SpecPresence == InitSync /\ [][NextPresence]_vars

\* two stores that call joinRoom whenever they like, also while an earlier
\* call's registration or connections are still pending; a data channel may
\* report an error and close on its own
JoinAgain == \E p \in Pair : \E r \in RoomIds : joinRoom(p, r) /\ tasks' = tasks
NextRejoin == JoinAgain \/ Broker \/ Connection \/ Data \/ ChannelError
SpecRejoin == InitSync /\ [][NextRejoin]_vars

\* the application: filesStore.init() has registered both callbacks
\* (setupLoroSync) and listed the local store, which may hold files of an
\* earlier session
StoredFiles == {EmptyMap, ("n" :> <<"x">>)}
InitApp ==
    /\ InitStores
    /\ opfs \in [Peers -> StoredFiles]
    /\ \A p \in Peers \ Pair : opfs[p] = EmptyMap
    /\ files = [p \in Peers |-> DOMAIN opfs[p]]
    /\ onRemoteChange = [p \in Peers |-> TRUE]
    /\ onBecameHost = [p \in Peers |-> TRUE]

Share == \E p \in Pair : (peerObjs[p] = <<>> \/ Settled) /\ ShareModalMount(p)
Resume == \E p \in Peers : \E t \in 1..(2 * MaxJoins + 2) : TaskStep(p, t)

NextApp == JoinShared \/ Share \/ Broker \/ Connection \/ Data \/ Resume
SpecApp == InitApp /\ [][NextApp]_vars

\* the application with its editor: filesStore.init() has listed the local
\* store, reopened the last file (openFile, which announces it as presence)
\* and registered both callbacks; each store joins the room once
EditFiles == ("A" :> (("n" :> <<"x">>) @@ ("m" :> <<"x">>)))
                @@ ("B" :> ("n" :> <<"y">>)) @@ ("C" :> EmptyMap)
\* each store holds its own version of the one file of folder "d"
FolderFiles == ("A" :> ("m" :> <<"x">>)) @@ ("B" :> ("m" :> <<"y">>))
                  @@ ("C" :> EmptyMap)
LastFile(stored, p) ==
    IF DOMAIN stored[p] = {} THEN NoFile
    ELSE LET held == SelectSeq(PathOrder, LAMBDA x : x \in DOMAIN stored[p])
         IN  held[1]
InitEditor(stored) ==
    /\ oplog = [p \in Peers |-> <<>>]
    /\ filePaths = [p \in Peers |-> {}]
    /\ applyingRemote = [p \in Peers |-> FALSE]
    /\ lastFrontiers = [p \in Peers |-> {}]
    /\ meFile = [p \in Peers |-> LastFile(stored, p)]
    /\ eph = [p \in Peers |-> [q \in Peers |->
                 IF p = q /\ LastFile(stored, p) # NoFile
                 THEN [ts |-> 1, file |-> LastFile(stored, p)]
                 ELSE [ts |-> 0, file |-> NoFile]]]
    /\ awareness = [p \in Peers |-> IF LastFile(stored, p) # NoFile
                                     THEN {<<p, LastFile(stored, p)>>} ELSE {}]
    /\ isHost = [p \in Peers |-> FALSE]
    /\ roomId = [p \in Peers |-> NoId]
    /\ peer = [p \in Peers |-> 0]
    /\ peerObjs = [p \in Peers |-> <<>>]
    /\ connections = [p \in Peers |-> EmptyMap]
    /\ conns = <<>>
    /\ msgs = EmptyBag
    /\ opfs = stored
    /\ files = [p \in Peers |-> DOMAIN opfs[p]]
    /\ currentFile = [p \in Peers |->
                         IF LastFile(stored, p) # NoFile
                         THEN [path |-> LastFile(stored, p),
                               content |-> stored[p][LastFile(stored, p)],
                               isDirty |-> FALSE, isNew |-> FALSE]
                         ELSE NoFileRec]
    /\ lastSavedContent = [p \in Peers |->
                              IF LastFile(stored, p) # NoFile
                              THEN stored[p][LastFile(stored, p)] ELSE <<>>]
    /\ autoSaveTimer = [p \in Peers |-> FALSE]
    /\ isApplyingRemote = [p \in Peers |-> FALSE]
    /\ tasks = [p \in Peers |-> <<>>]
    /\ onRemoteChange = [p \in Peers |-> TRUE]
    /\ onBecameHost = [p \in Peers |-> TRUE]
    /\ hist = InitHist
InitEdit == InitEditor(EditFiles)
InitFolder == InitEditor(FolderFiles)

JoinFirst == \E p \in Pair : \E r \in RoomIds :
               /\ peerObjs[p] = <<>>
               /\ joinRoom(p, r)
               /\ tasks' = tasks
\* the network is quiet: no registration or connection set-up is pending
\* and no message is in flight (callbacks of the bridge may be suspended);
\* the user acts at such moments of a joined session
Quiet ==
    /\ msgs = EmptyBag
    /\ \A p \in Peers : \A i \in DOMAIN peerObjs[p] : peerObjs[p][i].st # "pending"
    /\ \A k \in DOMAIN conns :
          conns[k].srv = "none" \/ {conns[k].cst, conns[k].sst} \subseteq {"open", "closed"}
InSession == \E k \in DOMAIN conns : conns[k].cst = "open" /\ conns[k].sst = "open"
Pending == Len(tasks["A"]) + Len(tasks["B"]) + Len(tasks["C"])
UserOp == hist.ops < MaxUserOps /\ Quiet /\ InSession /\ Pending <= MaxPending
Typing == \E p \in Pair : UserOp /\ updateContent(p, <<"y">>)
\* a save or a delete starts, and the auto-save timer fires, when no callback
\* of that store is suspended
Saving == \E p \in Pair : UserOp /\ tasks[p] = <<>> /\ Save(p)
AutoSave == \E p \in Pair : tasks[p] = <<>> /\ AutoSaveFire(p)
Deleting == \E p \in Pair :
              /\ UserOp /\ tasks[p] = <<>>
              /\ \/ \E path \in files[p] : deleteItem(p, path, FALSE)
                 \/ \E folder \in Folders : deleteItem(p, folder, TRUE)
WriteFail == \E p \in Pair : \E t \in 1..(2 * MaxJoins + 2) : TaskWriteFail(p, t)

\* editing and saving the open file
NextEdit == JoinFirst \/ Broker \/ Opening \/ Data \/ Resume
                \/ Typing \/ Saving \/ AutoSave
SpecEdit == InitFolder /\ [][NextEdit]_vars

\* typing with auto-save: the timer fires whenever it is armed, also while
\* a callback of the store is suspended
AutoSaveAny == \E p \in Pair : AutoSaveFire(p)
NextAutoSave == JoinFirst \/ Broker \/ Opening \/ Data \/ Resume
                    \/ Typing \/ AutoSaveAny
SpecAutoSave == InitFolder /\ [][NextAutoSave]_vars

\* deleting files and folders
NextDelete == JoinFirst \/ Broker \/ Opening \/ Data \/ Resume \/ Deleting
SpecDelete == InitFolder /\ [][NextDelete]_vars

\* renaming files: one store holds an empty file, the other a non-empty one
RenameFiles == ("A" :> ("m" :> <<>>)) @@ ("B" :> ("m" :> <<"y">>))
                  @@ ("C" :> EmptyMap)
InitRename == InitEditor(RenameFiles)
Renaming == \E p \in Pair : \E path \in files[p] : \E new \in Paths \ {path} :
              /\ UserOp /\ tasks[p] = <<>>
              /\ renameItem(p, path, new)
NextRename == JoinFirst \/ Broker \/ Opening \/ Data \/ Resume \/ Renaming
SpecRename == InitRename /\ [][NextRename]_vars

\* deleting a file while callbacks of the store may be suspended
DeletingAny == \E p \in Pair : \E path \in files[p] :
                 UserOp /\ deleteItem(p, path, FALSE)
NextPush == JoinFirst \/ Broker \/ Opening \/ Data \/ Resume \/ DeletingAny
SpecPush == InitFolder /\ [][NextPush]_vars

\* passes whose store write fails
NextIO == JoinFirst \/ Broker \/ Opening \/ Data \/ Resume \/ WriteFail
SpecIO == InitEdit /\ [][NextIO]_vars

\* ------------------------------------------------------------------ claims
\* C1: once two peers have each received and applied every operation the
\* other authored, getFile returns the same content on both for every path,
\* whatever the order in which the messages were applied.
Exchanged(p, q) ==
    /\ hist.authored[q] \subseteq hist.received[p]
    /\ hist.authored[p] \subseteq hist.received[q]
Claims(p) == {i \in DOMAIN peerObjs[p] : peerObjs[p][i].kind = "claim"}
JoinedOnce(p, r) ==
    /\ Cardinality(Claims(p)) = 1
    /\ \A i \in Claims(p) : peerObjs[p][i].want = r
Resolved ==
    /\ \A p \in Peers : \A i \in DOMAIN peerObjs[p] : peerObjs[p][i].st # "pending"
    /\ \A k \in DOMAIN conns : conns[k].cst # "new" /\ conns[k].sst # "new"
HostOf(w, r) ==
    /\ isHost[w] /\ roomId[w] = r
    /\ Registered(r) /\ Registrant(r)[1] = w
ClientOf(l, w, r) ==
    /\ ~isHost[l]
    /\ \E i \in Claims(l) : peerObjs[l][i].st = "destroyed"
    /\ \E k \in DOMAIN conns :
          /\ conns[k].cl = l /\ conns[k].srv = w /\ conns[k].srvId = r
          /\ conns[k].cst = "open" /\ conns[k].sst = "open"
C2_HostExclusive ==
    \A r \in RoomIds :
        (\A p \in Peers : Cardinality(Claims(p)) <= 1) =>
            /\ \A p \in Peers : \A q \in Peers \ {p} :
                  ~(isHost[p] /\ isHost[q] /\ roomId[p] = r /\ roomId[q] = r)
            /\ (Resolved /\ \A p \in Pair : JoinedOnce(p, r)) =>
                  \E w \in Pair :
                      HostOf(w, r) /\ \A l \in Pair \ {w} : ClientOf(l, w, r)
C2_Witness ==
    \E r \in RoomIds : Resolved /\ \A p \in Pair : JoinedOnce(p, r)

\* C4: after a joiner that had no document state of its own has processed the
\* host's snapshot (and no other document message), its listFiles() and the
\* content of every path equal the host's at the time the connection opened.
C4_SnapshotComplete ==
    \A k \in hist.snapDone :
        LET c == conns[k].cl
            host == hist.snap[k]
        IN  (k \in DOMAIN hist.snap /\ c \notin hist.setters /\ hist.docMsgs[c] = 1) =>
                /\ filePaths[c] = host.files
                /\ \A path \in Paths :
                      getFile(oplog[c], path) = getFile(host.log, path)

\* C6: setFile(p, c) called when the content of p already is c adds no
\* operation to the op-log and sends no message; it changes nothing but the
\* path registry, where it registers p.
C6_NoOpWrite ==
    [][\A p \in Peers : \A path \in Paths : \A c \in Contents :
          (SetFile(p, path, c) /\ getFile(oplog[p], path) = c) =>
              /\ Len(oplog'[p]) = Len(oplog[p])
              /\ oplog' = oplog
              /\ msgs' = msgs
              /\ lastFrontiers' = lastFrontiers
              /\ filePaths' = [filePaths EXCEPT ![p] = @ \cup {path}]
              /\ UNCHANGED <<applyingRemote, presenceVars, sessionVars, netVars,
                             bridgeVars>>]_vars
\* a setFile call that created no operation was made while a connection was
\* open to send on
C6_Witness ==
    /\ hist.edits > Cardinality(UNION {hist.authored[p] : p \in Peers})
    /\ \E k \in DOMAIN conns : conns[k].cst = "open" /\ conns[k].sst = "open"

\* C7: importing a snapshot or update payload that this replica has imported
\* before leaves its document (contents, version, op-log) unchanged.
C7_IdempotentImport ==
    [][\A f \in BagToSet(msgs) :
          LET p == EndStore(f.k, f.to)
          IN  (Deliver(f) /\ f.m.type # "ephemeral" /\ f.m.ops \in hist.seen[p]) =>
                  /\ oplog'[p] = oplog[p]
                  /\ oplogVersion(oplog'[p]) = oplogVersion(oplog[p])
                  /\ \A path \in Paths :
                        getFile(oplog'[p], path) = getFile(oplog[p], path)]_vars
\* some replica has imported a non-empty payload for the second time
C7_Witness == hist.dups # {}

\* C8: a snapshot, update or ephemeral message whose payload does not decode
\* is handled without changing the document, the version marker, the path
\* registry or the presence map.
C8_CorruptIgnored ==
    [][\A k \in DOMAIN conns : \A side \in {"c", "s"} :
          \A type \in {"sync", "update", "ephemeral"} :
              DeliverCorrupt(k, side, type) =>
                  /\ oplog' = oplog
                  /\ lastFrontiers' = lastFrontiers
                  /\ filePaths' = filePaths
                  /\ eph' = eph]_vars
\* a corrupt message reached a replica that holds operations
C8_Witness == hist.corrupts > 0 /\ \E p \in Peers : lastFrontiers[p] # {}

\* C9: applyingRemote is false whenever handleMessage has returned, also
\* after an import that failed.
C9_FlagCleared == \A p \in Peers : ~applyingRemote[p]

PassStep(p, t) == t \in DOMAIN tasks[p] /\ tasks[p][t].kind = "pass" /\ TaskStep(p, t)
PassPending(p) == \E t \in DOMAIN tasks[p] : tasks[p][t].kind = "pass"
C5_JoinerStoreFilled ==
    \A k \in hist.snapDone :
        LET c == conns[k].cl
            host == hist.snap[k]
        IN  (k \in DOMAIN hist.snap /\ hist.passDone[c] /\ ~PassPending(c)) =>
                \A path \in host.files :
                    /\ path \in DOMAIN opfs[c]
                    /\ opfs[c][path] = getFile(host.log, path)

\* C10: the callback registered with setHostCallback has been invoked once
\* for every time this peer became host, by claiming a room identifier
\* or by joinRoom(null).
C10_HostCallbackOnce ==
    \A p \in Peers : onBecameHost[p] => hist.hostCalls[p] = hist.hostTrans[p]

\* C11: after a claim that failed with an error other than 'unavailable-id'
\* the store is neither host nor client: isHost is false and it has no
\* connection (the failed claim being the last thing joinRoom started).
LastPeer(p) == peerObjs[p][Len(peerObjs[p])]
ClaimFailed(p) ==
    peerObjs[p] # <<>> /\ LastPeer(p).kind = "claim" /\ LastPeer(p).st = "failed"
C11_FailedClaimTerminal ==
    \A p \in Peers : ClaimFailed(p) => ~isHost[p] /\ connections[p] = EmptyMap

\* C12: a host that receives an update or ephemeral message forwards it to
\* every other open connection it has and not to the one it arrived on; a
\* store that is not host forwards nothing.
OpenEnds(p) ==
    {e \in (DOMAIN conns) \X {"c", "s"} :
        EndStore(e[1], e[2]) = p /\ EndState(e[1], e[2]) = "open"}
Forwarded(p, f) ==
    IF isHost[p]
    THEN {Flight(e[1], Other(e[2]), f.m) : e \in OpenEnds(p) \ {<<f.k, f.to>>}}
    ELSE {}
C12_HostRelays ==
    [][\A f \in BagToSet(msgs) :
          (Deliver(f) /\ f.m.type \in {"update", "ephemeral"}) =>
              msgs' = (msgs (-) SetToBag({f}))
                          (+) SetToBag(Forwarded(EndStore(f.k, f.to), f))]_vars
\* an update is in flight from the host to a client that is not its author,
\* and an ephemeral message has been relayed too
C12_Witness ==
    \E f \in BagToSet(msgs) :
        /\ f.m.type = "update" /\ f.to = "c"
        /\ isHost[conns[f.k].srv]
        /\ \A o \in f.m.ops : o.id[1] \notin {conns[f.k].srv, conns[f.k].cl}

\* C13: the first messages an endpoint sends on a connection are those of
\* its 'open' handler: the full snapshot of its document and, if the presence
\* state is non-empty, its full encode; nothing (no update) is sent on a
\* connection by an endpoint that has not sent its snapshot.
SentOn(k, side, old, new) ==
    {f \in BagToSet(new) :
        /\ f.k = k /\ f.to = Other(side)
        /\ CopiesIn(f, new) > CopiesIn(f, old)}
OpenHandlerSends(k, side) ==
    LET p == EndStore(k, side)
    IN  {Flight(k, Other(side), DocMsg("sync", OpsOf(oplog[p])))}
            \cup (IF \E q \in Peers : eph[p][q].ts > 0
                  THEN {Flight(k, Other(side), EphMsg(encodeAll(eph[p])))}
                  ELSE {})
C13_SnapshotFirst ==
    [][\A k \in DOMAIN conns' : \A side \in {"c", "s"} :
          LET was == IF k \in DOMAIN conns THEN EndState(k, side) ELSE "new"
          IN  /\ (was = "new" /\ SentOn(k, side, msgs, msgs') # {}) =>
                    SentOn(k, side, msgs, msgs') = OpenHandlerSends(k, side)
              /\ (was = "new" /\ EndState(k, side)' = "open") =>
                    SentOn(k, side, msgs, msgs') = OpenHandlerSends(k, side)]_vars
\* the host has sent an update on a connection after the snapshot, and the
\* snapshot it sent held operations
C13_Witness ==
    \E f \in BagToSet(msgs) :
        /\ f.m.type = "update" /\ f.to = "c"
        /\ f.k \in DOMAIN hist.snap /\ hist.snap[f.k].log # <<>>

\* C19: getFile(path) returns null, not a content string, for a path that no
\* setFile call and no imported operation has created.
NeverCreated(p, path) ==
    /\ path \notin filePaths[p]
    /\ \A o \in OpsOf(oplog[p]) : o.path # path
C19_AbsentIsNull ==
    \A p \in Peers : \A path \in Paths :
        NeverCreated(p, path) => getFile(oplog[p], path) = Null

\* C14: a step of the bulk push (syncAllToLoro calling setFile for a file of
\* the local store) is taken by the host only, and it never replaces the
\* content of a path that already has content in the document
C14_PushKeepsContent ==
    [][\A p \in Pair : \A t \in DOMAIN tasks[p] :
          (TaskSync(p, t) /\ tasks[p][t].todo[1] \in DOMAIN opfs[p])
              => /\ isHost[p]
                 /\ \A path \in Paths :
                       getFile(oplog[p], path) # <<>>
                           => getFile(oplog'[p], path) = getFile(oplog[p], path)]_vars

\* C15: when a reconciliation pass of a store completes and no other pass of
\* that store is still running, the local store holds getFile(path) for
\* every path of listFiles(), and the buffer of the open file equals it too
PassCompletes(p, t) ==
    /\ tasks[p][t].kind = "pass"
    /\ TaskList(p, t) \/ TaskSync(p, t)
    /\ Len(tasks'[p]) < Len(tasks[p])
    /\ \A u \in DOMAIN tasks'[p] : tasks'[p][u].kind # "pass"
C15_PassReconciles ==
    [][\A p \in Pair : \A t \in DOMAIN tasks[p] :
          PassCompletes(p, t)
              => \A path \in filePaths'[p] :
                    /\ path \in DOMAIN opfs'[p]
                    /\ opfs'[p][path] = getFile(oplog'[p], path)
                    /\ currentFile'[p].path = path
                           => currentFile'[p].content = getFile(oplog'[p], path)]_vars

\* C16: a step of a reconciliation pass removes no file from the local
\* store and empties none, whatever the other stores have deleted
C16_PassKeepsFiles ==
    [][\A p \in Pair : \A t \in DOMAIN tasks[p] :
          (tasks[p][t].kind = "pass" /\ TaskStep(p, t))
              => \A path \in DOMAIN opfs[p] :
                    /\ path \in DOMAIN opfs'[p]
                    /\ opfs[p][path] # <<>> => opfs'[p][path] # <<>>]_vars
\* a store has imported the deletion of a file by the other store, the passes
\* it started have completed, and it still holds the file
C16_Witness ==
    \E p \in Pair : \E q \in Pair \ {p} : \E path \in hist.deleted[q] :
        /\ \E o \in OpsOf(oplog[p]) : o.path = "files" /\ o.id[1] = q
        /\ tasks[p] = <<>>
        /\ path \notin DOMAIN opfs[q]
        /\ path \in DOMAIN opfs[p]

\* C17: when deleteItem returns (its refresh() has completed), no path that
\* it removed from the local store and that the store no longer holds is
\* still in listFiles()
DeleteReturns(p, t) ==
    /\ tasks[p][t].kind \in {"delFile", "delFolder"}
    /\ TaskList(p, t) \/ TaskSync(p, t)
    /\ Len(tasks'[p]) < Len(tasks[p])
C17_DeletedUnlisted ==
    [][\A p \in Pair : \A t \in DOMAIN tasks[p] :
          DeleteReturns(p, t)
              => \A path \in hist'.deleted[p] \ DOMAIN opfs'[p] :
                    path \notin filePaths'[p]]_vars

\* C18: when opfs.writeFile fails for one path of a reconciliation pass, the
\* pass goes on with the paths it has not reconciled yet
C18_PassSurvivesFailure ==
    [][\A p \in Pair : \A t \in DOMAIN tasks[p] :
          (TaskWriteFail(p, t) /\ Tail(tasks[p][t].todo) # <<>>)
              => /\ t \in DOMAIN tasks'[p]
                 /\ tasks'[p][t].kind = "pass"
                 /\ tasks'[p][t].todo = Tail(tasks[p][t].todo)]_vars

\* C20: the step of a save that stores content c under path p also calls
\* setFile(p, c), after which p is registered and getFile(p) is c; a step of
\* updateContent leaves the document, the registry and the channel alone
C20_SaveSetsFile ==
    [][\A p \in Pair :
          /\ \A t \in DOMAIN tasks[p] :
                TaskStore(p, t)
                    => /\ tasks[p][t].todo[1] \in filePaths'[p]
                       /\ getFile(oplog'[p], tasks[p][t].todo[1]) = tasks[p][t].content
          /\ \A c \in Contents :
                updateContent(p, c) => UNCHANGED <<oplog, filePaths, msgs>>]_vars

\* C21: two stores that each set a path for the first time, to different
\* non-empty contents and without having seen the other's write, hold the
\* same non-empty content for it once each has applied the other's write
FirstWrites(p, path) ==
    {o \in OpsOf(oplog[p]) : o.id[1] = p /\ o.path = path /\ o.del = {} /\ o.ins # <<>>}
WroteApart(p, q, path) ==
    /\ \E a \in FirstWrites(p, path) : \E b \in FirstWrites(q, path) :
          /\ a.ins # b.ins
          /\ hist.authored[p] = {a.id}
          /\ hist.authored[q] = {b.id}
    /\ Exchanged(p, q)
C21_ConcurrentMerge ==
    \A p \in Pair : \A q \in Pair \ {p} : \A path \in Paths :
        WroteApart(p, q, path) =>
            /\ getFile(oplog[p], path) = getFile(oplog[q], path)
            /\ getFile(oplog[p], path) # <<>>
            /\ Len(getFile(oplog[p], path)) = 2
\* the two writes were made apart, the host's before the connection opened,
\* and have been exchanged by the snapshots of that connection, each store
\* holding them in its own order
C21_Witness ==
    \E p \in Pair : \E q \in Pair \ {p} : \E path \in Paths :
        /\ WroteApart(p, q, path)
        /\ oplog[p] # oplog[q]
        /\ \E k \in DOMAIN hist.snap :
              /\ conns[k].srv = p /\ conns[k].cl = q
              /\ conns[k].cst = "open" /\ conns[k].sst = "open"
              /\ hist.authored[p] \subseteq oplogVersion(hist.snap[k].log)
              /\ k \in hist.snapDone

\* C22: joinRoom without a room identifier creates no claiming Peer: the
\* store is host at once, its new Peer asks the broker for an address, and
\* when the broker confirms it roomId is that address and isHost is true
C22_NewRoomHost ==
    [][\A p \in Peers :
          /\ joinRoom(p, NoId)
                => /\ isHost'[p]
                   /\ Len(peerObjs'[p]) = Len(peerObjs[p]) + 1
                   /\ peer'[p] = Len(peerObjs'[p])
                   /\ peerObjs'[p][peer'[p]] = NewPeer("events", NoId, NoId)
          /\ \A i \in DOMAIN peerObjs[p] :
                (BrokerOpen(p, i) /\ peerObjs[p][i] = NewPeer("events", NoId, NoId))
                    => /\ isHost'[p]
                       /\ peerObjs'[p][i].st = "open"
                       /\ roomId'[p] = peerObjs'[p][i].id
                       /\ roomId'[p] \notin RoomIds]_vars
\* a store that joined without a room identifier is host of the address the
\* broker gave it
C22_Witness ==
    \E p \in Peers : \E i \in DOMAIN peerObjs[p] :
        /\ peerObjs[p][i].kind = "events" /\ peerObjs[p][i].target = NoId
        /\ peerObjs[p][i].st = "open"
        /\ isHost[p] /\ roomId[p] = peerObjs[p][i].id /\ peer[p] = i
        /\ \A j \in DOMAIN peerObjs[p] : peerObjs[p][j].kind # "claim"

\* C23: the update messages a setFile call sends carry exactly the
\* operations the version marker does not cover, the marker then equals the
\* version of the document, and the marker never loses an operation, so an
\* operation sent in one update of a store is in none of its later ones
Sent(old, new) == {f \in BagToSet(new) : CopiesIn(f, new) > CopiesIn(f, old)}
C23_UpdateIsDelta ==
    [][\A p \in Peers :
          /\ lastFrontiers[p] \subseteq lastFrontiers'[p]
          /\ \A path \in Paths : \A c \in Contents :
                SetFile(p, path, c)
                    => /\ \A f \in Sent(msgs, msgs') :
                             /\ f.m.type = "update"
                             /\ f.m.ops = {o \in OpsOf(oplog'[p]) :
                                              o.id \notin lastFrontiers[p]}
                             /\ f.m.ops = OpsOf(oplog'[p]) \ OpsOf(oplog[p])
                             /\ lastFrontiers'[p] = oplogVersion(oplog'[p])
                       /\ (oplog'[p] # oplog[p] /\ ~applyingRemote[p])
                             => lastFrontiers'[p] = oplogVersion(oplog'[p])]_vars
\* the second update of a store is in flight on an open connection and
\* carries its second operation only
C23_Witness ==
    \E f \in BagToSet(msgs) :
        /\ f.m.type = "update"
        /\ conns[f.k].cst = "open" /\ conns[f.k].sst = "open"
        /\ \E o \in f.m.ops :
              /\ f.m.ops = {o}
              /\ o.id[1] = EndStore(f.k, Other(f.to))
              /\ o.id[2] = 2

\* C24: a store that receives a snapshot ('sync' message) puts no message
\* in flight: the snapshot is not forwarded to any other connection
C24_SnapshotNotRelayed ==
    [][\A f \in BagToSet(msgs) :
          (Deliver(f) /\ f.m.type = "sync")
              => msgs' = msgs (-) SetToBag({f})]_vars

\* C25: isApplyingRemote of a store is true exactly while one of its
\* reconciliation passes is in progress
C25_GuardHeld == \A p \in Peers : isApplyingRemote[p] <=> PassPending(p)

\* C26: the 'close' handler of a connection removes it from the active
\* connection set, and the awareness list it refreshes holds no presence
\* record of the peer at the other end
C26_CloseDropsPresence ==
    [][\A k \in DOMAIN conns : \A side \in {"c", "s"} :
          ConnClose(k, side) =>
              LET p == EndStore(k, side)
              IN  /\ EndPeer(k, side) \notin DOMAIN connections'[p]
                  /\ \A a \in awareness'[p] : a[1] # EndStore(k, Other(side))]_vars

\* C27: the 'error' handler of a connection removes it from the active
\* connection set of its store and leaves every other entry of the set, and
\* the connections those entries stand for, as they were
C27_ErrorDropsOnlyItself ==
    [][\A k \in DOMAIN conns : \A side \in {"c", "s"} : \A closes \in BOOLEAN :
          ConnError(k, side, closes) =>
              LET p == EndStore(k, side)
                  id == EndPeer(k, side)
              IN  /\ id \notin DOMAIN connections'[p]
                  /\ \A x \in (DOMAIN connections[p]) \ {id} :
                        /\ x \in DOMAIN connections'[p]
                        /\ connections'[p][x] = connections[p][x]
                        /\ conns'[connections[p][x][1]] = conns[connections[p][x][1]]]_vars

\* C28: listFiles() of a store changes only in a call of setFile or
\* deleteFile: setFile(path, c) leaves the path listed, whether or not it
\* wrote anything, and deleteFile(path) leaves it unlisted
SetsFile(p, t) == TaskSync(p, t) /\ tasks[p][t].todo[1] \in DOMAIN opfs[p]
DeletesFile(p, t) ==
    /\ TaskRemove(p, t)
    /\ tasks[p][t].kind = "delFile"
    /\ tasks[p][t].todo[1] \in DOMAIN opfs[p]
C28_ListTracksCalls ==
    [][\A p \in Pair :
          /\ \A t \in DOMAIN tasks[p] :
                /\ SetsFile(p, t)
                      => filePaths'[p] = filePaths[p] \cup {tasks[p][t].todo[1]}
                /\ DeletesFile(p, t)
                      => filePaths'[p] = filePaths[p] \ {tasks[p][t].todo[1]}
          /\ filePaths'[p] # filePaths[p]
                => \E t \in DOMAIN tasks[p] : SetsFile(p, t) \/ DeletesFile(p, t)]_vars
\* a store lists a path that it deleted after it last wrote to it: the
\* setFile that listed the path again found the content in place
C28_Witness ==
    \E p \in Pair : \E path \in Paths :
        /\ path \in filePaths[p]
        /\ path \in hist.deleted[p]
        /\ \E d \in OpsOf(oplog[p]) :
              /\ d.path = "files" /\ d.id[1] = p
              /\ \A o \in OpsOf(oplog[p]) :
                    (o.path = path /\ o.id[1] = p) => o.id[2] < d.id[2]

\* C29: when a save completes and no other save of the store is in
\* progress, the local store holds under the saved path the content that
\* getFile returns for it
C29_SaveAgrees ==
    [][\A p \in Pair : \A t \in DOMAIN tasks[p] :
          (/\ TaskStore(p, t)
           /\ \A u \in DOMAIN tasks'[p] : tasks'[p][u].kind # "save")
              => LET path == tasks[p][t].todo[1]
                 IN  /\ path \in DOMAIN opfs'[p]
                     /\ opfs'[p][path] = getFile(oplog'[p], path)]_vars

\* C30: the active connection set of a store holds an entry for a remote
\* peer exactly when a data channel to that peer is open: every open
\* endpoint of the store is the entry of its remote peer, and every entry
\* is an endpoint that is open or whose 'close' handler is about to run
C30_SetIsOpenChannels ==
    \A p \in Peers :
        /\ \A e \in OpenEnds(p) : EndPeer(e[1], e[2]) \in DOMAIN connections[p]
        /\ \A id \in DOMAIN connections[p] :
              LET e == connections[p][id]
              IN  /\ EndStore(e[1], e[2]) = p
                  /\ EndPeer(e[1], e[2]) = id
                  /\ EndState(e[1], e[2]) \in {"open", "closing"}

\* C31: isHost of a store is true only while its Peer holds an address that
\* the broker has confirmed as registered to it
HoldsAddress(p) == peer[p] # 0 /\ peerObjs[p][peer[p]].st = "open"
C31_HostIsRegistered == \A p \in Peers : isHost[p] => HoldsAddress(p)

\* C32: at most one Peer created by a store is registered with the broker,
\* and it is the one that the store's peer field refers to
Alive(p) == {i \in DOMAIN peerObjs[p] : peerObjs[p][i].st = "open"}
C32_OneRegistration ==
    \A p \in Peers : Cardinality(Alive(p)) <= 1 /\ Alive(p) \subseteq {peer[p]}

\* C33: an edit of the open saved file that is not yet saved has a save
\* ahead of it: the auto-save timer is armed or a save is in progress
SaveAhead(p) ==
    \/ autoSaveTimer[p]
    \/ \E t \in DOMAIN tasks[p] : tasks[p][t].kind = "save"
C33_EditGetsSaved ==
    \A p \in Pair :
        (/\ currentFile[p].path # NoFile
         /\ currentFile[p].isDirty /\ ~currentFile[p].isNew
         /\ currentFile[p].content # lastSavedContent[p])
            => SaveAhead(p)

\* C34: a reconciliation pass leaves the editing buffer alone while it
\* holds unsaved edits
C34_PassKeepsDirtyBuffer ==
    [][\A p \in Pair : \A t \in DOMAIN tasks[p] :
          (TaskWrite(p, t) /\ currentFile[p].isDirty)
              => currentFile'[p].content = currentFile[p].content]_vars

\* C35: when renameItem returns after renaming a file that the document
\* listed with the content the local store held, listFiles() holds the new
\* path and not the old one, and getFile(newPath) is that content
RenameReturns(p, t) ==
    /\ tasks[p][t].kind = "rename"
    /\ TaskList(p, t) \/ TaskSync(p, t)
    /\ Len(tasks'[p]) < Len(tasks[p])
C35_RenameMovesFile ==
    [][\A p \in Pair : \A t \in DOMAIN tasks[p] :
          (RenameReturns(p, t) /\ hist.renamed[p] # <<>> /\ hist.renamed[p][4])
              => LET r == hist.renamed[p]
                 IN  /\ r[2] \in filePaths'[p]
                     /\ r[1] \notin filePaths'[p]
                     /\ getFile(oplog'[p], r[2]) = r[3]]_vars

\* C36: no asynchronous callback of the bridge lets a failure of the I/O it
\* awaits escape: an error thrown by opfs.readFile is caught by the callback
\* that awaited it
C36_NoEscapedError == \A p \in Peers : ~hist.escaped[p]

\* C37: setCurrentFile replaces the store's own presence record, kept under
\* its own identifier, and sends one ephemeral message carrying it on every
\* open connection of the store and nothing else
C37_PresenceUpsert ==
    [][\A p \in Peers : \A fileId \in Paths :
          setCurrentFile(p, fileId) =>
              LET m == EphMsg({<<p, eph'[p][p].ts, fileId>>})
                  out == {Flight(e[1], Other(e[2]), m) : e \in OpenEnds(p)}
              IN  /\ eph'[p][p].file = fileId
                  /\ eph'[p][p].ts > eph[p][p].ts
                  /\ \A q \in Peers \ {p} : eph'[p][q] = eph[p][q]
                  /\ <<p, fileId>> \in awareness'[p]
                  /\ \A a \in awareness'[p] : a[1] = p => a[2] = fileId
                  /\ msgs' = msgs (+) SetToBag(out)]_vars
\* a host with two open connections has changed the file it shows and the
\* two messages are in flight
C37_Witness ==
    \E p \in Peers :
        /\ Cardinality(OpenEnds(p)) = 2
        /\ meFile[p] # NoFile
        /\ \A e \in OpenEnds(p) :
              CopiesIn(Flight(e[1], Other(e[2]), EphMsg({<<p, eph[p][p].ts, meFile[p]>>})),
                       msgs) = 1

\* C38: a host forwards a message it received only once it has applied it:
\* what it forwards is part of its state after the step, and a message that
\* does not decode is forwarded to nobody
C38_RelayAfterApply ==
    [][/\ \A f \in BagToSet(msgs) :
             (Deliver(f) /\ Sent(msgs, msgs') # {})
                 => LET p == EndStore(f.k, f.to)
                    IN  /\ f.m.ops \subseteq OpsOf(oplog'[p])
                        /\ \A t \in f.m.st : eph'[p][t[1]].ts >= t[2]
       /\ \A k \in DOMAIN conns : \A side \in {"c", "s"} :
             \A type \in {"sync", "update", "ephemeral"} :
                DeliverCorrupt(k, side, type) => msgs' = msgs]_vars
\* a host with two open connections has received a snapshot or an update
\* that did not decode: the failed import left its guard flag set
C38_Witness ==
    /\ hist.corrupts > 0
    /\ \E p \in Peers :
          /\ isHost[p] /\ applyingRemote[p]
          /\ Cardinality({e \in (DOMAIN conns) \X {"c", "s"} :
                            /\ EndStore(e[1], e[2]) = p
                            /\ EndState(e[1], e[2]) = "open"
                            /\ EndPeer(e[1], e[2]) \in DOMAIN connections[p]}) = 2

\* the store's current Peer is the one created by the fallback to client
\* mode for room r
FellBack(p, r) ==
    /\ peer[p] \in DOMAIN peerObjs[p]
    /\ peerObjs[p][peer[p]].kind = "events"
    /\ peerObjs[p][peer[p]].target = r
    /\ peerObjs[p][peer[p]].st \in {"pending", "open"}
    /\ ~isHost[p]
\* C39: once a store has fallen back to client mode for room r, its roomId
\* is r: neither null nor the identifier of a room it hosted before
C39_ClientRoomId ==
    \A p \in Peers : \A r \in RoomIds : FellBack(p, r) => roomId[p] = r
====
